---- MODULE Spec2Model ----
(***************************************************************************)
(* A model of the mlinc training engine: the seeded Lehmer generator       *)
(* (numeric/random.h), the batch iterator (data/batch.c), the LSTM layer   *)
(* (model/lstm.h, model/lstm.c) and the model orchestrator                 *)
(* (model/model.c).                                                        *)
(*                                                                         *)
(* C arrays are functions over 0..n-1, a NULL pointer is the empty         *)
(* function.  Feature and label values are integers; the input filler 1.0  *)
(* is the integer 1 and the label filler 0.0 the integer 0.                *)
(***************************************************************************)
EXTENDS Integers, Sequences, FiniteSets, TLC

\* ------------------------------------------------------------------ bounds
\* Largest number of sequences (or of rows of a flat dataset).
MaxSeqs == 2
\* Largest length of one sequence.
MaxSeqLen == 2
\* Largest batch size.
MaxB == 2
\* Largest number of batch_shuffle calls followed in one behaviour.
MaxShuffles == 2
\* Largest value found in the heap cell that follows a shuffle table.
MaxGarbage == 2
\* Number of feature columns of a dataset row.
Dim == 1
\* Number of units (hidden size) of a layer.
Units == 1
\* Largest num_layers handed to model_create.
MaxLayers == 2
\* Largest num_epochs handed to model_fit.
MaxEpochs == 2
\* Largest number of model_fit calls followed in one behaviour.
MaxFits == 2
\* Largest number of model_predict calls followed in one behaviour.
MaxPredicts == 1
\* Largest len handed to model_predict.
MaxPredLen == 3
\* Largest number of elements M * N of a gradient array.
MaxElems == 2
\* Largest number of segments of a schedule.
MaxSegs == 2
\* Largest number of epochs of one segment.
MaxSegEpochs == 2
\* Largest learning rate of a segment (weight decays are below it).
MaxRate == 2
\* Vocabulary size of the embedding layer.
MaxVocab == 2
\* Largest embedding dimension.
MaxEmbDim == 2
\* Largest context length.
MaxContext == 2
\* Largest batch size of the embedding layer.
MaxEmbBatch == 2
\* Largest number of time steps of the CTC calculator.
MaxT == 3
\* Largest number of operations of the two runs compared.
MaxTwinOps == 3
\* Largest number of layers of a model file.
MaxFileLayers == 2
\* Largest number of gradient arrays of a layer of a model file.
MaxFileGrads == 1
\* Largest number of operations on the two layers that are resized.
MaxResizeOps == 3
\* Largest number of entries of the hash map.
MaxMapSize == 3
\* Largest number of calls made on the hash map.
MaxHashOps == 3
\* Largest number of training batches whose gradients are followed.
MaxGradOps == 3
\* Largest number of model_set_batch_size calls on one model.
MaxSetOps == 3
\* Largest number of batches of one training or validation pass.
MaxUpdBatches == 2

VARIABLES
    lrng_seed,  \* numeric/random.c: the generator state
    lenArg,     \* the lengths array handed to batch_create (NULL: none)
    bat,        \* the BATCH iterator
    xbuf,       \* the caller's input buffer  [B][D + add_bias]
    ybuf,       \* the caller's label buffer  [B][N]  (NULL: none)
    ret,        \* what the last batch_copy returned (-1: not called yet)
    lastIdx,    \* row indices the last batch_copy read, in buffer order
    yielded,    \* row indices batch_copy read since the last batch_shuffle
    zeroAt,     \* Len(yielded) when batch_copy first returned 0 (-1: not yet)
    nshuf,      \* batch_shuffle calls so far
    past,       \* the heap cells that follow the shuffle tables, once read
    overrun     \* a batch_shuffle swapped past the end of a table

batchVars ==
    <<lrng_seed, lenArg, bat, xbuf, ybuf, ret, lastIdx, yielded, zeroAt, nshuf,
      past, overrun>>

VARIABLES
    lstmA,      \* an LSTM layer of batch size B, fed the sequence in halves
    lstmB,      \* an LSTM layer of batch size 2B with the same weights
    xseq,       \* the input sequence, 2B rows of D features
    hA,         \* the hidden rows lstmA returned since its last reset
    hB,         \* the hidden rows lstmB returned since its last reset
    nA,         \* lstm_forward calls on lstmA since its last reset
    nB,         \* lstm_forward calls on lstmB since its last reset
    bwdA        \* lstm_backward calls on lstmA since its last lstm_forward

lstmVars == <<lstmA, lstmB, xseq, hA, hB, nA, nB, bwdA>>

VARIABLES
    mdl,        \* the MODEL m (NULL before model_create)
    pc,         \* where the program is: "start", "add", "ready", inside
                \* model_fit "epoch", "train", "valid"; "exited", "crashed"
    fit,        \* the arguments and the epoch counter of the running model_fit
    bVd,        \* model_fit's validation iterator (NULL: no validation data)
    fwdLog,     \* the forward passes of the current training/validation pass
    nfit,       \* model_fit calls so far
    bwdFinal    \* model_batch_backward was called on a finalized model

VARIABLES
    predLen,    \* len of the last model_predict call (-1: not called yet)
    yout,       \* the rows the last model_predict wrote to the caller's y
    npred       \* model_predict calls so far

predVars == <<predLen, yout, npred>>

modelVars == <<mdl, pc, fit, bVd, fwdLog, nfit, bwdFinal, predVars>>

VARIABLES
    optPc,      \* "idle", after clip_gradients "clipped", after adamw_update
                \* "updated", or "exited" (adamw called exit(-1))
    gmin, gmax, \* the bounds of the last clip_gradients call
    ga0,        \* the gradient array g[M][N] before the last call
    ga,         \* the gradient array after it
    va0,        \* the second-moment array v[M][N] before the last adamw_update
    va,         \* the second-moment array after it
    wcnt        \* per element, the updates the last adamw_update applied

optVars == <<optPc, gmin, gmax, ga0, ga, va0, va, wcnt>>

VARIABLES
    sch,        \* the schedule string of model_fit's kwargs, as characters
    segs,       \* the segments <<e, lr, wd>> the string was written from
    schEpoch,   \* the epoch counter of model_fit's loop
    learning_rate, weight_decay,  \* model_fit's parameters of those names
    schLog      \* the (lr, wd) in force in every epoch run so far

schedVars == <<sch, segs, schEpoch, learning_rate, weight_decay, schLog>>

VARIABLES
    emb,        \* the EMBEDDING layer: D, S, B, M, E, padinx, h, Wx
    embX,       \* the input of the last embedding_forward, [B][M] flattened
    embPc       \* "idle", "done", or "crashed" (a write past the end of h)

embVars == <<emb, embX, embPc>>

VARIABLES
    ctc,        \* the CTC calculator: T, L, blank, ypc, ypclen, ytc, ytclen
    ctcPc,      \* "created", "lost" (after ctc_loss), "scored"
    lossArgs,   \* the T, yp and yt passed to the last ctc_loss
    accT,       \* the T passed to the last ctc_accuracy
    acc         \* the value returned by the last ctc_accuracy, num / den

ctcVars == <<ctc, ctcPc, lossArgs, accT, acc>>

VARIABLES
    runA, runB, \* two runs of one program: generator state, iterator, buffers
    twinOps     \* the number of operations both runs have performed

twinVars == <<runA, runB, twinOps>>

VARIABLES
    rdFile,     \* the file handed to read_model: a model and where it is bad
    rdOut,      \* what read_model did: value returned, heap, diagnostics
    rdPc        \* "idle" before the call, "done" after it

readVars == <<rdFile, rdOut, rdPc>>

VARIABLES
    rzL, rzD,   \* an LSTM layer and a DENSE layer
    rzPrev,     \* both layers as they were before the last operation
    rzOp,       \* the last operation performed on them
    rzCnt       \* the number of operations performed

resizeVars == <<rzL, rzD, rzPrev, rzOp, rzCnt>>

VARIABLES
    hm,         \* the HASHMAP
    hmGiven,    \* for every string, the values hashmap_str2inx(m, s, 1)
                \* returned for it while the map was not full
    hmQuiet,    \* no hashmap_str2inx(m, s, 0) has changed the map so far
    hmOps       \* the number of calls made

hashVars == <<hm, hmGiven, hmQuiet, hmOps>>

VARIABLES
    gL,         \* the DENSE layer trained (its weights do not change:
                \* learning rate 0)
    gX, gCnt,   \* the input rows of the last training batch and the count
                \* batch_copy returned for it
    gDy,        \* model_fit's buffer dy[L - 1], in units of 1 / DyScale
    gWx,        \* the weight gradient grads[0] of the last batch, same units
    gOps        \* the number of training batches processed

gradVars == <<gL, gX, gCnt, gDy, gWx, gOps>>

VARIABLES
    updM,       \* the compiled MODEL: layer types, optimizer, update_cnt
    updPc,      \* "ready", or inside model_fit "train", "valid"
    updFit,     \* the running model_fit: num_epochs, epoch, batches of the
                \* epoch so far, model_fit calls so far
    updTrained, \* the training batches processed since model_create
    updSteps    \* the <<layer, matrix, step>> of every adamw_update call of
                \* the last model_update

updVars == <<updM, updPc, updFit, updTrained, updSteps>>

VARIABLES
    sbM,        \* the MODEL whose batch size is changed
    sbPc,       \* "added" (every layer added), "compiled"
    sbOps       \* model_set_batch_size calls so far

setbVars == <<sbM, sbPc, sbOps>>

auxVars ==
    <<optVars, schedVars, embVars, ctcVars, twinVars, readVars,
      resizeVars, hashVars, gradVars, updVars, setbVars>>

vars == <<batchVars, lstmVars, modelVars, auxVars>>

NULL == << >>

\* F applied to the value of v.  TLC evaluates an operator's argument anew
\* at every use; Eval fixes the value first.
Eval(v, F(_)) == CHOOSE r \in {F(w) : w \in {v}} : TRUE

\* ------------------------------------------------------ numeric/random.h
modulus == 2147483647
multiplier == 48271

\* init_lrng: seed & 0x7FFFFFFF of a 32-bit int clears the sign bit.
InitLrng(seed) == IF seed >= 0 THEN seed ELSE (seed + 2147483647) + 1

\* One step of the Lehmer generator (Schrage's method), lrng_seed after lrng().
LrngNext(seed) ==
    LET q == modulus \div multiplier
        r == modulus % multiplier
        t == multiplier * (seed % q) - r * (seed \div q)
    IN  IF t > 0 THEN t ELSE t + modulus

\* 2^k
RECURSIVE Pow2(_)
Pow2(k) == IF k = 0 THEN 1 ELSE 2 * Pow2(k - 1)

\* The number of bits a 24-bit float mantissa cannot hold of n (0 <= n < 2^31)
RECURSIVE ExcessBits(_)
ExcessBits(n) == IF n < 16777216 THEN 0 ELSE 1 + ExcessBits(n \div 2)

\* An IEEE single is [m, e]: the value m * 2^e with m < 2^24.
\* Rounds the integer n * 2^e0 to a single, to nearest, ties to even.
RoundToFloat(n, e0) ==
    LET sh  == ExcessBits(n)
        ulp == Pow2(sh)
        m0  == n \div ulp
        rem == n % ulp
        up  == (2 * rem > ulp) \/ (2 * rem = ulp /\ m0 % 2 = 1)
        m1  == IF up THEN m0 + 1 ELSE m0
    IN  IF m1 = 16777216 THEN [m |-> 8388608, e |-> e0 + sh + 1]
                         ELSE [m |-> m1, e |-> e0 + sh]

\* lrng(): (float) lrng_seed / modulus, modulus converted to float is 2^31.
LrngFloat(seed) == RoundToFloat(seed, -31)

\* (int) urand(0.0, 1.0 + i), for the generator state after the draw:
\* the float product lrng() * (max - min) + min, truncated.
IntUrand(seed, i) ==
    LET f == LrngFloat(seed)
        p == RoundToFloat(f.m * (1 + i), f.e)
    IN  IF p.e >= 0 THEN p.m * Pow2(p.e)
        ELSE IF p.e <= -24 THEN 0 ELSE p.m \div Pow2(0 - p.e)

\* ---------------------------------------------------------- data/batch.c
\* The dataset behind b->x and b->y: the value of column j of row i.
Xs(i, j) == 10 * (i + 1) + j + 2
Ys(i, j) == 0 - (10 * (i + 1) + j + 2)

\* shufSeq[i] = shufSeq[i - 1] + shufLen[i - 1], shufSeq[0] = 0
RECURSIVE SeqOffset(_, _)
SeqOffset(len, i) == IF i = 0 THEN 0 ELSE SeqOffset(len, i - 1) + len[i - 1]

\* batch_create.  len is the lengths array (NULL when none is passed).
BatchCreate(D, hasY, N, B, len, num, shuffle, add_bias) ==
    LET seqMode == len # NULL /\ num > 1
    IN  [ D |-> D, N |-> N, B |-> B, hasY |-> hasY,
          shuffle  |-> IF shuffle # 0 THEN 1 ELSE 0,
          add_bias |-> IF add_bias # 0 THEN 1 ELSE 0,
          num |-> num,
          shufSeq |-> IF seqMode THEN [i \in 0..num-1 |-> SeqOffset(len, i)]
                      ELSE NULL,
          shufLen |-> IF seqMode THEN [i \in 0..num-1 |-> len[i]] ELSE NULL,
          shufVec |-> IF ~seqMode /\ shuffle # 0
                      THEN [i \in 0..num-1 |-> i] ELSE NULL,
          curSeq |-> 0, curVec |-> 0 ]

\* A shuffle table of num entries together with the memory cell that
\* follows it on the heap (index num), which holds g.
Extend(tab, num, g) == [k \in 0..num |-> IF k < num THEN tab[k] ELSE g]

\* tmp = tab[i]; tab[i] = tab[j]; tab[j] = tmp
Swap(tab, i, j) ==
    [k \in DOMAIN tab |-> IF k = i THEN tab[j]
                          ELSE IF k = j THEN tab[i] ELSE tab[k]]

\* One iteration of the inner loop of batch_shuffle, at index i, on
\* t = [seq, len, vec, seed, over]: the tables (each with the cell past its
\* end), the generator state and whether a swap index left the table.
\*     int j = (int) urand(0.0, 1.0 + i);  swap entries i and j
ShuffleStep(t, num, i) ==
    LET s == LrngNext(t.seed)
        j == IntUrand(s, i)
    IN  [ seq  |-> IF t.seq # NULL THEN Swap(t.seq, i, j) ELSE t.seq,
          len  |-> IF t.seq # NULL THEN Swap(t.len, i, j) ELSE t.len,
          vec  |-> IF t.seq = NULL THEN Swap(t.vec, i, j) ELSE t.vec,
          seed |-> s,
          over |-> t.over \/ j >= num ]

\* for (i = num - 1; i > 0; i--), from index i down
RECURSIVE ShufflePass(_, _, _)
ShufflePass(t, num, i) ==
    IF i <= 0 THEN t
    ELSE Eval(ShuffleStep(t, num, i), LAMBDA u : ShufflePass(u, num, i - 1))

\* for (k = 0; k < 3; k++), from pass k on
RECURSIVE ShufflePasses(_, _, _)
ShufflePasses(t, num, k) ==
    IF k >= 3 THEN t
    ELSE Eval(ShufflePass(t, num, num - 1),
              LAMBDA u : ShufflePasses(u, num, k + 1))

\* batch_shuffle: resets the cursor and, when shuffling is on, makes three
\* passes over the table.  g = [off, len] is what the heap holds past the
\* end of the tables (off: past shufSeq or shufVec, len: past shufLen).
\* Returns the iterator, the generator state, the cells past the tables
\* and whether a swap went past the end of a table.
BatchShuffle(b, seed, g) ==
    LET n  == b.num
        t0 == [seq |-> IF b.shufSeq # NULL THEN Extend(b.shufSeq, n, g.off)
                       ELSE NULL,
               len |-> IF b.shufSeq # NULL THEN Extend(b.shufLen, n, g.len)
                       ELSE NULL,
               vec |-> IF b.shufSeq = NULL /\ b.shufVec # NULL
                       THEN Extend(b.shufVec, n, g.off) ELSE NULL,
               seed |-> seed, over |-> FALSE]
        b0 == [b EXCEPT !.curSeq = 0, !.curVec = 0]
        Cut(tab) == IF tab = NULL THEN NULL ELSE [k \in 0..n-1 |-> tab[k]]
    IN  IF b.shuffle = 0 \/ (b.shufSeq = NULL /\ b.shufVec = NULL)
        THEN [b |-> b0, seed |-> seed, past |-> g, over |-> FALSE]
        ELSE Eval(ShufflePasses(t0, n, 0), LAMBDA t3 :
               [b |-> [b0 EXCEPT !.shufSeq = Cut(t3.seq),
                                 !.shufLen = Cut(t3.len),
                                 !.shufVec = Cut(t3.vec)],
                seed |-> t3.seed,
                past |-> IF t3.seq # NULL
                         THEN [off |-> t3.seq[n], len |-> t3.len[n]]
                         ELSE [off |-> t3.vec[n], len |-> -1],
                over |-> t3.over])

\* The x loop of the sequence branch of batch_copy:
\* for (cnt = 0; cnt < B && b->curSeq < b->num && b->curVec < seqLen; cnt++)
\*     i = b->shufSeq[b->curSeq] + b->curVec++
\* idx collects the row index i of every row copied.
RECURSIVE SeqLoop(_, _, _)
SeqLoop(b, seqLen, idx) ==
    IF Len(idx) < b.B /\ b.curSeq < b.num /\ b.curVec < seqLen
    THEN SeqLoop([b EXCEPT !.curVec = @ + 1], seqLen,
                 Append(idx, b.shufSeq[b.curSeq] + b.curVec))
    ELSE [b |-> b, idx |-> idx]

\* The x loop of the two flat branches:
\* for (cnt = 0; cnt < B && b->curVec < b->num; cnt++)
\*     i = b->shufVec[b->curVec++]      (shuffled)
\*     i = b->curVec++                  (sequential)
RECURSIVE VecLoop(_, _)
VecLoop(b, idx) ==
    IF Len(idx) < b.B /\ b.curVec < b.num
    THEN VecLoop([b EXCEPT !.curVec = @ + 1],
                 Append(idx, IF b.shufVec # NULL THEN b.shufVec[b.curVec]
                             ELSE b.curVec))
    ELSE [b |-> b, idx |-> idx]

\* The label loops restarted at the head of the sequence or of the table
\* at every call.
YIndex_fromhead(b, ycnt) ==
    IF b.shufSeq # NULL THEN b.shufSeq[b.curSeq] + ycnt
    ELSE IF b.shufVec # NULL THEN b.shufVec[ycnt]
    ELSE ycnt

\* The label loops: for (ycnt = 0; ycnt < cnt; ycnt++) with the local copies
\* curSeq, curVec taken on entry; the row index of label row ycnt.
YIndex(b, ycnt) ==
    IF b.shufSeq # NULL THEN b.shufSeq[b.curSeq] + (b.curVec + ycnt)
    ELSE IF b.shufVec # NULL THEN b.shufVec[b.curVec + ycnt]
    ELSE b.curVec + ycnt

\* A padding row of zeros, as batch.h describes the padding.
XPad_zeros(Db) == [j \in 0..Db-1 |-> 0]

\* The padding rows: xd[i][j] = 1.0 for j < Db, yd[i][j] = 0 for j < N.
XPad(Db) == [j \in 0..Db-1 |-> 1]

YPad(N) == [j \in 0..N-1 |-> 0]

\* batch_copy(b, x, y).  x and y are the caller's buffers before the call
\* (y is NULL when the caller passes none).  Returns the iterator after the
\* call, both buffers, the count returned and the row indices read.
BatchCopy(b, x, y) ==
    LET Db  == b.D + b.add_bias
        lab == b.hasY /\ y # NULL
        loop == IF b.shufSeq # NULL
                THEN IF b.curSeq < b.num
                     THEN LET seqLen == b.shufLen[b.curSeq]
                          IN  Eval(SeqLoop(b, seqLen, << >>), LAMBDA l :
                                IF l.b.curVec >= seqLen
                                THEN [b |-> [l.b EXCEPT !.curSeq = @ + 1,
                                                        !.curVec = 0],
                                      idx |-> l.idx]
                                ELSE l)
                     ELSE [b |-> b, idx |-> << >>]
                ELSE VecLoop(b, << >>)
    IN  Eval(loop, LAMBDA r :
          LET cnt  == Len(r.idx)
              ycnt == IF lab THEN cnt ELSE 0
              xd == [k \in 0..b.B-1 |->
                       IF k < cnt
                       THEN [j \in 0..Db-1 |->
                               IF j < b.D THEN Xs(r.idx[k + 1], j) ELSE 1]
                       ELSE XPad(Db)]
              yd == IF lab
                    THEN [k \in 0..b.B-1 |->
                            IF k < ycnt
                            THEN [j \in 0..b.N-1 |-> Ys(YIndex(b, k), j)]
                            ELSE IF cnt < b.B THEN YPad(b.N) ELSE y[k]]
                    ELSE y
          IN  [b |-> r.b, x |-> xd, y |-> yd, cnt |-> cnt, idx |-> r.idx])

\* ------------------------------------------- numeric/activation.h, array.h
\* Layer values are integers.  Products, sums and relu are the C
\* arithmetic on integer-valued floats; the two squashing functions are
\* stood in for by their saturated forms, which keep their sign and what
\* they read.
\*     tanh(v)
Tanh(v) == IF v > 0 THEN 1 ELSE IF v < 0 THEN -1 ELSE 0

\*     sigmoid: 1.0 / (1.0 + exp(-v))
Sigmoid(v) == IF v > 0 THEN 1 ELSE 0

\*     relu: if (v < 0.0) v = 0.0
Relu(v) == IF v < 0 THEN 0 ELSE v

\* activate(v, S, activation) inside lstm_forward: 's', 'r', or none.
Activate(v, activation) ==
    [j \in DOMAIN v |-> IF activation = "s" THEN Sigmoid(v[j])
                        ELSE IF activation = "r" THEN Relu(v[j])
                        ELSE v[j]]

\* r[j] after  for (i = 0; i < M; i++) r[j] += v[i] * m[i][j]
RECURSIVE MulAcc(_, _, _, _, _)
MulAcc(rj, v, m, j, M) ==
    IF M = 0 THEN rj ELSE MulAcc(rj, v, m, j, M - 1) + v[M - 1] * m[M - 1][j]

\* addvecmatmul(r, v, m, M, N):  r = r + v @ m
AddVecMatMul(r, v, m, M, N) == [j \in 0..N-1 |-> MulAcc(r[j], v, m, j, M)]

\* fltclr: a vector, and an array of rows lo..hi, of zeros.
ZeroVec(S) == [j \in 0..S-1 |-> 0]

ZeroRows(lo, hi, S) == [t \in lo..hi |-> ZeroVec(S)]

\* ------------------------------------------------- model/lstm.c, lstm.h
\* lstm_create(units, activation, stateful): allocmem zeroes the rest.
LstmCreate(units, activation, stateful) ==
    [ S |-> units, activation |-> activation,
      stateful |-> IF stateful # 0 THEN 1 ELSE 0,
      D |-> 0, B |-> 0,
      f |-> NULL, i |-> NULL, o |-> NULL, cc |-> NULL, h |-> NULL, c |-> NULL,
      Wf |-> NULL, Wi |-> NULL, Wc |-> NULL, Wo |-> NULL,
      Uf |-> NULL, Ui |-> NULL, Uc |-> NULL, Uo |-> NULL,
      ph |-> NULL, pc |-> NULL ]

\* A D x S matrix with every entry w.
ConstMat(D, S, w) == [d \in 0..D-1 |-> [j \in 0..S-1 |-> w]]

\* lstm_init(l, input_dim, batch_size).  The random draws of the kernel
\* and recurrent weights are the inputs wgt.W and wgt.U.  The arrays with
\* B + 1 rows are indexed from -1: row t is the state at time step t.
LstmInit(l, input_dim, batch_size, wgt) ==
    [l EXCEPT !.D = input_dim, !.B = batch_size,
              !.f  = ZeroRows(0, batch_size - 1, l.S),
              !.i  = ZeroRows(0, batch_size - 1, l.S),
              !.o  = ZeroRows(0, batch_size - 1, l.S),
              !.cc = ZeroRows(-1, batch_size - 1, l.S),
              !.h  = ZeroRows(-1, batch_size - 1, l.S),
              !.c  = ZeroRows(-1, batch_size - 1, l.S),
              !.Wf = ConstMat(input_dim, l.S, wgt.W),
              !.Wi = ConstMat(input_dim, l.S, wgt.W),
              !.Wc = ConstMat(input_dim, l.S, wgt.W),
              !.Wo = ConstMat(input_dim, l.S, wgt.W),
              !.Uf = ConstMat(l.S, l.S, wgt.U),
              !.Ui = ConstMat(l.S, l.S, wgt.U),
              !.Uc = ConstMat(l.S, l.S, wgt.U),
              !.Uo = ConstMat(l.S, l.S, wgt.U),
              !.ph = ZeroVec(l.S), !.pc = ZeroVec(l.S)]

\* lstm_set_batch_size without the test for a layer not initialised.
LstmSetBatchSize_unguarded(l, batch_size) ==
    [l EXCEPT !.B = batch_size,
              !.f  = ZeroRows(0, batch_size - 1, l.S),
              !.i  = ZeroRows(0, batch_size - 1, l.S),
              !.o  = ZeroRows(0, batch_size - 1, l.S),
              !.cc = ZeroRows(-1, batch_size - 1, l.S),
              !.h  = ZeroRows(-1, batch_size - 1, l.S),
              !.c  = ZeroRows(-1, batch_size - 1, l.S)]

\* lstm_set_batch_size(l, batch_size): nothing when B is 0; a new batch
\* size frees and allocates f, i, o, cc, h, c (allocmem zeroes them); the
\* same batch size clears them.
LstmSetBatchSize(l, batch_size) ==
    IF l.B = 0 THEN l
    ELSE IF batch_size # l.B
    THEN [l EXCEPT !.B = batch_size,
                   !.f  = ZeroRows(0, batch_size - 1, l.S),
                   !.i  = ZeroRows(0, batch_size - 1, l.S),
                   !.o  = ZeroRows(0, batch_size - 1, l.S),
                   !.cc = ZeroRows(-1, batch_size - 1, l.S),
                   !.h  = ZeroRows(-1, batch_size - 1, l.S),
                   !.c  = ZeroRows(-1, batch_size - 1, l.S)]
    ELSE [l EXCEPT !.f  = ZeroRows(0, l.B - 1, l.S),
                   !.i  = ZeroRows(0, l.B - 1, l.S),
                   !.o  = ZeroRows(0, l.B - 1, l.S),
                   !.cc = ZeroRows(-1, l.B - 1, l.S),
                   !.h  = ZeroRows(-1, l.B - 1, l.S),
                   !.c  = ZeroRows(-1, l.B - 1, l.S)]

\* lstm_reset: fltclr(l->ph), fltclr(l->pc)
LstmReset(l) == [l EXCEPT !.ph = ZeroVec(l.S), !.pc = ZeroVec(l.S)]

\* The state a forward pass starts from, h[-1] and c[-1], with the carry
\* dropped whatever l->stateful says.
LstmCarry_cleared(l) == [h |-> ZeroVec(l.S), c |-> ZeroVec(l.S)]

\* The state a forward pass starts from, h[-1] and c[-1], taken from the
\* carry whatever l->stateful says.
LstmCarry_kept(l) == [h |-> l.ph, c |-> l.pc]

\* The state a forward pass starts from, h[-1] and c[-1]:
\*     if (l->stateful) { fltcpy(h[-1],l->ph,S); fltcpy(c[-1],l->pc,S); }
\*     else             { fltclr(h[-1],S);       fltclr(c[-1],S); }
LstmCarry(l) ==
    IF l.stateful = 1 THEN [h |-> l.ph, c |-> l.pc]
    ELSE [h |-> ZeroVec(l.S), c |-> ZeroVec(l.S)]

\* One iteration of  for (t = 0; t < B; t++)  of lstm_forward on the layer
\* l whose buffers hold the rows before t; x is the batch [B][D].
LstmStep(l, x, t) ==
    LET Gate(W, U) ==
            AddVecMatMul(AddVecMatMul(ZeroVec(l.S), x[t], W, l.D, l.S),
                         l.h[t - 1], U, l.S, l.S)
        ft  == Activate(Gate(l.Wf, l.Uf), l.activation)
        it  == Activate(Gate(l.Wi, l.Ui), l.activation)
        ot  == Activate(Gate(l.Wo, l.Uo), l.activation)
        g   == Gate(l.Wc, l.Uc)
        cct == [j \in 0..l.S-1 |-> Tanh(g[j])]
        ct  == [j \in 0..l.S-1 |-> ft[j] * l.c[t - 1][j] + it[j] * cct[j]]
        ht  == [j \in 0..l.S-1 |-> ot[j] * Tanh(ct[j])]
    IN  [l EXCEPT !.f[t] = ft, !.i[t] = it, !.o[t] = ot,
                  !.cc[t] = cct, !.c[t] = ct, !.h[t] = ht]

RECURSIVE LstmLoop(_, _, _)
LstmLoop(l, x, t) ==
    IF t >= l.B THEN l
    ELSE Eval(LstmStep(l, x, t), LAMBDA u : LstmLoop(u, x, t + 1))

\* lstm_forward(l, X): clears the buffers, loads the carry, runs the B
\* time steps and saves the last row as the carry of the next batch.
\* The rows returned are l.h[0..B-1].
LstmForward(l, x) ==
    LET k  == LstmCarry(l)
        l0 == [l EXCEPT !.f  = ZeroRows(0, l.B - 1, l.S),
                        !.i  = ZeroRows(0, l.B - 1, l.S),
                        !.o  = ZeroRows(0, l.B - 1, l.S),
                        !.cc = ZeroRows(-1, l.B - 1, l.S),
                        !.c  = [ZeroRows(-1, l.B - 1, l.S) EXCEPT ![-1] = k.c],
                        !.h  = [ZeroRows(-1, l.B - 1, l.S) EXCEPT ![-1] = k.h]]
    IN  Eval(LstmLoop(l0, x, 0), LAMBDA u :
             [u EXCEPT !.ph = u.h[u.B - 1], !.pc = u.c[u.B - 1]])

\* lstm_backward, as far as the layer goes: it reads the buffers the
\* forward pass left, writes the gradient arrays and dX (not followed
\* here), and saves h[B-1], c[B-1] as the carry again.
LstmBackward(l) == [l EXCEPT !.ph = l.h[l.B - 1], !.pc = l.c[l.B - 1]]

\* ------------------------------------------------ model/dense.c, dense.h
\* dense_create(units, activation)
DenseCreate(units, activation) ==
    [ S |-> units, activation |-> activation, D |-> 0, B |-> 0,
      h |-> NULL, Wx |-> NULL ]

\* dense_init(l, input_dim, batch_size); the random draws are the input w.
DenseInit(l, input_dim, batch_size, w) ==
    [l EXCEPT !.D = input_dim, !.B = batch_size,
              !.Wx = ConstMat(input_dim, l.S, w),
              !.h = ZeroRows(0, batch_size - 1, l.S)]

\* dense_set_batch_size(l, batch_size): nothing when B is 0; a new batch
\* size frees and allocates h; the same batch size clears it.
DenseSetBatchSize(l, batch_size) ==
    IF l.B = 0 THEN l
    ELSE IF batch_size # l.B
    THEN [l EXCEPT !.B = batch_size,
                   !.h = ZeroRows(0, batch_size - 1, l.S)]
    ELSE [l EXCEPT !.h = ZeroRows(0, l.B - 1, l.S)]

\* Tmatmul(gWx, X, dy, D, B, S) of dense_backward: gWx = X.T @ dy, summed
\* over the rows rows of X and dy.
RECURSIVE TSum(_, _, _, _, _)
TSum(X, dy, i, j, rows) ==
    IF rows = 0 THEN 0
    ELSE TSum(X, dy, i, j, rows - 1) + X[rows - 1][i] * dy[rows - 1][j]

\* dense_backward(l, dy, X, gWx, NULL, lyr): the gradient gWx.
DenseBackward(l, dy, X) ==
    [i \in 0..l.D - 1 |-> [j \in 0..l.S - 1 |-> TSum(X, dy, i, j, l.B)]]

\* dense_forward: h = activation(X @ Wx), row by row.
DenseForward(l, x) ==
    [l EXCEPT !.h = [t \in 0..l.B-1 |->
        Activate(AddVecMatMul(ZeroVec(l.S), x[t], l.Wx, l.D, l.S),
                 l.activation)]]

\* ------------------------- stats/editdist.c, numeric/onehot.h, numeric/ctc.c
\* Number of labels of the CTC calculator, the blank included.
CtcL == 3

Minimum(a, b, c) ==
    LET m1 == IF b < a THEN b ELSE a
    IN  IF c < m1 THEN c ELSE m1

\* The inner loop of edit_dist for the true token ti: fills v1[1..n] from
\* v0 and the prediction p (arrays are 0-based).
RECURSIVE EditRow(_, _, _, _, _, _)
EditRow(p, n, ti, v0, v1, j) ==
    IF j >= n THEN v1
    ELSE LET del == v0[j + 1] + 1
             ins == v1[j] + 1
             sub == IF p[j] = ti THEN v0[j] ELSE v0[j] + 1
         IN  EditRow(p, n, ti, v0,
                     [v1 EXCEPT ![j + 1] = Minimum(del, ins, sub)], j + 1)

\* The outer loop of edit_dist from row i on; v0 and v1 swap after a row.
RECURSIVE EditRows(_, _, _, _, _, _, _)
EditRows(p, n, t, m, v0, v1, i) ==
    IF i >= m THEN v0[n]
    ELSE EditRows(p, n, t, m,
                  EditRow(p, n, t[i], v0, [v1 EXCEPT ![0] = i + 1], 0),
                  v0, i + 1)

\* edit_dist(p, n, t, m)
EditDist(p, n, t, m) ==
    IF n <= 0 THEN m
    ELSE IF m <= 0 THEN n
    ELSE EditRows(p, n, t, m, [i \in 0..n |-> i], [i \in 0..n |-> 0], 0)

\* onehot_decode of one row of N values: the first index of the maximum.
RECURSIVE ArgMax(_, _, _, _)
ArgMax(row, N, j, mj) ==
    IF j >= N THEN mj
    ELSE ArgMax(row, N, j + 1, IF row[j] > row[mj] THEN j ELSE mj)

\* onehot_decode(yv, yc, M, N): yc[0..M-1] rewritten, the rest kept.
OnehotDecode(yv, yc, M, N) ==
    [i \in DOMAIN yc |-> IF i < M THEN ArgMax(yv[i], N, 1, 0) ELSE yc[i]]

\* for (i = 1, j = 0; i < T; i++) if (yc[i] != yc[j]) yc[++j] = yc[i];
RECURSIVE MergeRepeats(_, _, _, _)
MergeRepeats(yc, T, i, j) ==
    IF i >= T THEN [yc |-> yc, j |-> j]
    ELSE IF yc[i] # yc[j]
         THEN MergeRepeats([yc EXCEPT ![j + 1] = yc[i]], T, i + 1, j + 1)
         ELSE MergeRepeats(yc, T, i + 1, j)

\* for (s = j + 1, i = 0, j = 0; i < s; i++)
\*     if (yc[i] != blank) yc[j++] = yc[i];
RECURSIVE RemoveBlanks(_, _, _, _, _)
RemoveBlanks(yc, s, blank, i, j) ==
    IF i >= s THEN [yc |-> yc, j |-> j]
    ELSE IF yc[i] # blank
         THEN RemoveBlanks([yc EXCEPT ![j] = yc[i]], s, blank, i + 1, j + 1)
         ELSE RemoveBlanks(yc, s, blank, i + 1, j)

\* The label decoding with the blanks removed before the repeats are
\* merged.
DecodeLabels_blanksfirst(yv, yc, T, L, blank) ==
    LET rb == RemoveBlanks(OnehotDecode(yv, yc, T, L), T, blank, 0, 0)
        mg == MergeRepeats(rb.yc, rb.j, 1, 0)
    IN  IF rb.j = 0 THEN rb ELSE [yc |-> mg.yc, j |-> mg.j + 1]

\* The label decoding of ctc_loss for one of its two inputs.
DecodeLabels(yv, yc, T, L, blank) ==
    LET mg == MergeRepeats(OnehotDecode(yv, yc, T, L), T, 1, 0)
    IN  RemoveBlanks(mg.yc, mg.j + 1, blank, 0, 0)

\* The floats of the CTC tables hold logarithms.  The model holds each of
\* them as the number whose logarithm it is, in a common integer unit:
\* -INFINITY is 0, 0.0 is 1, the sum of two stored values is the product
\* and logsumexp (Equation 7.18) is the sum.
NegInf == 0
LogZero == 1

\* ctc_create(T, L, blank): calloc'ed arrays; label has 2T+1 elements,
\* alpha and beta T * (2T+1) each, laid out row after row.
CtcCreate(T, L, blank) ==
    [T |-> T, L |-> L, blank |-> blank, S |-> 2 * T + 1,
     yp |-> [t \in 0..T - 1 |-> [j \in 0..L - 1 |-> LogZero]],
     ypc |-> [i \in 0..T - 1 |-> 0], ypclen |-> 0,
     ytc |-> [i \in 0..T - 1 |-> 0], ytclen |-> 0,
     label |-> [s \in 0..2 * T |-> 0],
     alpha |-> [i \in 0..T * (2 * T + 1) - 1 |-> LogZero],
     beta |-> [i \in 0..T * (2 * T + 1) - 1 |-> LogZero],
     prob |-> [t \in 0..T - 1 |-> LogZero],
     overrun |-> FALSE]

\* The padding with each label written after its blank.
RECURSIVE PadLabels_swapped(_, _, _, _, _, _, _)
PadLabels_swapped(label, ytc, blank, j, T, i, s) ==
    IF i < j /\ s < 2 * T + 1
    THEN PadLabels_swapped([label EXCEPT ![s] = blank, ![s + 1] = ytc[i]],
                           ytc, blank, j, T, i + 1, s + 2)
    ELSE [label |-> label, S |-> s]

\* label[0] = blank; for (i = 0, s = 1; i < j && s < 2 * T + 1; i++)
\*     { label[s++] = ytc[i]; label[s++] = blank; }
RECURSIVE PadLabels(_, _, _, _, _, _, _)
PadLabels(label, ytc, blank, j, T, i, s) ==
    IF i < j /\ s < 2 * T + 1
    THEN PadLabels([label EXCEPT ![s] = ytc[i], ![s + 1] = blank],
                   ytc, blank, j, T, i + 1, s + 2)
    ELSE [label |-> label, S |-> s]

\* start and end of the rows t of alpha and beta (Equations 7.9, 7.16).
WinStart(S, T, t) == IF S - 2 * (T - t) < 0 THEN 0 ELSE S - 2 * (T - t)
WinEnd(S, t) == IF 2 * (t + 1) > S THEN S ELSE 2 * (t + 1)

\* for (t...) for (s...) alpha[t][s] = beta[t][s] = -INFINITY, for the
\* tables typed float[T][S] on the buffer tab.
ClearTable(tab, T, S) ==
    [i \in DOMAIN tab |-> IF i < T * S THEN NegInf ELSE tab[i]]

\* Row 0 of alpha without Equation 7.6: alpha[0][1] left at -INFINITY.
AlphaInit_blankonly(a, yp, label, blank, S) ==
    [i \in DOMAIN a |->
        IF i = 0 THEN yp[0][blank]
        ELSE IF i < S \/ i = 1 THEN NegInf
        ELSE a[i]]

\* Lines 145-151: row 0 of alpha.  alpha[0][1] is written also when S = 1,
\* where it is the element after row 0.
AlphaInit(a, yp, label, blank, S) ==
    [i \in DOMAIN a |->
        IF i = 0 THEN yp[0][blank]
        ELSE IF i = 1 THEN (IF S > 1 THEN yp[0][label[1]] ELSE yp[0][blank])
        ELSE IF i < S THEN NegInf
        ELSE a[i]]

\* Lines 152-168: rows t..T-1 of alpha (Equation 7.8).
RECURSIVE AlphaRows(_, _, _, _, _, _, _)
AlphaRows(a, yp, label, blank, T, S, t) ==
    IF t >= T THEN a
    ELSE LET start == WinStart(S, T, t)
             end   == WinEnd(S, t)
             At(s) ==
                 LET ls == label[s]
                     a0 == a[(t - 1) * S + s]
                     a1 == IF s >= 1 THEN a0 + a[(t - 1) * S + s - 1] ELSE a0
                     a2 == IF s >= 2 /\ ~(ls = blank \/ label[s - 2] = ls)
                           THEN a1 + a[(t - 1) * S + s - 2] ELSE a1
                 IN  a2 * yp[t][ls]
             row == [i \in DOMAIN a |->
                        IF i < t * S \/ i >= t * S + end THEN a[i]
                        ELSE IF i - t * S < start THEN NegInf
                        ELSE At(i - t * S)]
         IN  AlphaRows(row, yp, label, blank, T, S, t + 1)

\* Row T-1 of beta with the last state only (without Equation 7.13).
BetaInit_lastonly(b, T, S) ==
    [i \in DOMAIN b |->
        IF i = (T - 1) * S + S - 1 THEN LogZero
        ELSE IF i >= (T - 1) * S /\ i < (T - 1) * S + S - 1 THEN NegInf
        ELSE b[i]]

\* Lines 171-175: row T-1 of beta.
BetaInit(b, T, S) ==
    [i \in DOMAIN b |->
        IF i = (T - 1) * S + S - 1 THEN LogZero
        ELSE IF S > 1 /\ i = (T - 1) * S + S - 2 THEN LogZero
        ELSE IF i >= (T - 1) * S /\ i < (T - 1) * S + S - 2 THEN NegInf
        ELSE b[i]]

\* Lines 176-192: rows t..0 of beta (Equation 7.15).
RECURSIVE BetaRows(_, _, _, _, _, _, _)
BetaRows(b, yp, label, blank, T, S, t) ==
    IF t < 0 THEN b
    ELSE LET start == WinStart(S, T, t)
             end   == WinEnd(S, t)
             Bt(s) ==
                 LET b0 == b[(t + 1) * S + s] * yp[t + 1][label[s]]
                     b1 == IF s + 1 < S
                           THEN b0 + b[(t + 1) * S + s + 1]
                                        * yp[t + 1][label[s + 1]]
                           ELSE b0
                     b2 == IF s + 2 < S
                              /\ ~(label[s] = blank \/ label[s + 2] = label[s])
                           THEN b1 + b[(t + 1) * S + s + 2]
                                        * yp[t + 1][label[s + 2]]
                           ELSE b1
                 IN  b2
             row == [i \in DOMAIN b |->
                        IF i < t * S + start \/ i >= (t + 1) * S THEN b[i]
                        ELSE IF i - t * S >= end THEN NegInf
                        ELSE Bt(i - t * S)]
         IN  BetaRows(row, yp, label, blank, T, S, t - 1)

\* Lines 195-200: prob = logsumexp over s < n of alpha[t][s] + beta[t][s].
RECURSIVE ProbSum(_, _, _, _, _)
ProbSum(a, b, t, S, n) ==
    IF n = 0 THEN NegInf
    ELSE ProbSum(a, b, t, S, n - 1) + a[t * S + n - 1] * b[t * S + n - 1]

\* ctc_loss(ctc, yp, yt, T, L): nothing is stored when T = 0.  yp is given
\* in the integer unit, so the stored log(yp) is yp itself.  overrun
\* records an access past the end of label, alpha or beta.
CtcLoss(c, yp, yt, T, L) ==
    IF T = 0 THEN c
    ELSE LET dp == DecodeLabels(yp, c.ypc, T, L, c.blank)
             dt == DecodeLabels(yt, c.ytc, T, L, c.blank)
             lb == PadLabels([c.label EXCEPT ![0] = c.blank], dt.yc,
                             c.blank, dt.j, T, 0, 1)
             S  == lb.S
             a  == AlphaRows(AlphaInit(ClearTable(c.alpha, T, S), yp,
                                       lb.label, c.blank, S),
                             yp, lb.label, c.blank, T, S, 1)
             b  == BetaRows(BetaInit(ClearTable(c.beta, T, S), T, S),
                            yp, lb.label, c.blank, T, S, T - 2)
         IN  [c EXCEPT !.yp = [t \in DOMAIN c.yp |->
                                  IF t < T THEN yp[t] ELSE c.yp[t]],
                       !.ypc = dp.yc, !.ypclen = dp.j,
                       !.ytc = dt.yc, !.ytclen = dt.j,
                       !.label = lb.label, !.S = S,
                       !.alpha = a, !.beta = b,
                       !.prob = [t \in DOMAIN c.prob |->
                                    IF t < T THEN ProbSum(a, b, t, S, S)
                                    ELSE c.prob[t]],
                       !.overrun = (c.overrun \/ S > 2 * c.T + 1
                                    \/ T * S > c.T * (2 * c.T + 1)
                                    \/ 1 >= c.T * (2 * c.T + 1))]

\* ctc_accuracy with the shorter of the two lengths as the factor.
CtcAccuracy_minlen(c, T) ==
    LET fact == IF c.ypclen < c.ytclen THEN c.ypclen ELSE c.ytclen
        dist == EditDist(c.ypc, c.ypclen, c.ytc, c.ytclen)
    IN  IF fact = 0 THEN [num |-> T, den |-> 1]
        ELSE [num |-> (fact - dist) * T, den |-> fact]

\* ctc_accuracy(ctc, yp, yt, T, L): the value (1.0 - dist / fact) * T as
\* the exact fraction num / den.
CtcAccuracy(c, T) ==
    LET fact == IF c.ypclen > c.ytclen THEN c.ypclen ELSE c.ytclen
        dist == EditDist(c.ypc, c.ypclen, c.ytc, c.ytclen)
    IN  IF fact = 0 THEN [num |-> T, den |-> 1]
        ELSE [num |-> (fact - dist) * T, den |-> fact]

\* ------------------------------------------------------- model/model.c
\* A LAYER slot as allocmem leaves it: type 0, no network, no gradients.
EmptyLayer == [type |-> "", net |-> NULL, grads |-> NULL, num_grads |-> 0]

\* model_create
ModelCreate(num_layers, batch_size, input_dim, add_bias, normalize) ==
    [ num_layers |-> num_layers,
      layer |-> [i \in 0..num_layers-1 |-> EmptyLayer],
      batch_size |-> batch_size, input_dim |-> input_dim,
      add_bias |-> IF add_bias # 0 THEN 1 ELSE 0,
      normalize |-> IF normalize # 0 THEN 1 ELSE 0,
      output_dim |-> 0, loss_func |-> "", optimizer |-> "",
      update_cnt |-> 0, final |-> 0, ctc |-> NULL ]

\* The first slot of type 0 (num_layers when there is none).
FirstEmpty(m) ==
    LET E == {i \in 0..m.num_layers-1 : m.layer[i].type = ""}
    IN  IF E = {} THEN m.num_layers
        ELSE CHOOSE i \in E : \A k \in E : i <= k

\* model_add(m, layer, type).  exit: the call ended in exit(-1).
ModelAdd(m, layer, type) ==
    LET i == FirstEmpty(m)
        t == IF type = "dense" THEN "d" ELSE IF type = "lstm" THEN "l" ELSE ""
    IN  IF i >= m.num_layers THEN [m |-> m, exit |-> TRUE]
        ELSE IF t = "" THEN [m |-> m, exit |-> TRUE]
        ELSE [m |-> [m EXCEPT !.layer[i].type = t, !.layer[i].net = layer],
              exit |-> FALSE]

\* The first loop of model_compile over the layers i..L-1 with input size
\* D: initialises every layer that has a type, threading its size to the
\* next one.  wgt holds the random draws of the weights.
RECURSIVE InitLayers(_, _, _, _)
InitLayers(m, i, D, wgt) ==
    IF i >= m.num_layers THEN m
    ELSE LET l == m.layer[i]
         IN  IF l.type = "d"
             THEN InitLayers(
                    [m EXCEPT !.layer[i].net =
                        DenseInit(l.net, D, m.batch_size, wgt.W)],
                    i + 1, l.net.S, wgt)
             ELSE IF l.type = "l"
             THEN InitLayers(
                    [m EXCEPT !.layer[i].net =
                        LstmInit(l.net, D, m.batch_size, wgt)],
                    i + 1, l.net.S, wgt)
             ELSE InitLayers(m, i + 1, D, wgt)

\* The number of gradient arrays model_compile allocates for a layer.
NumGrads(type, optimizer) ==
    IF type = "d" THEN (IF optimizer = "l" THEN 1 ELSE 3)
    ELSE IF type = "l" THEN (IF optimizer = "l" THEN 8 ELSE 24)
    ELSE 0

\* model_compile(m, loss_func, optimizer).  exit: ended in exit(-1).
\* An allocated grads array is [n |-> its number of entries].
ModelCompile(m, loss_func, optimizer, wgt) ==
    LET lf == IF loss_func = "mean-square-error" THEN "m"
              ELSE IF loss_func = "cross-entropy" THEN "c"
              ELSE IF loss_func = "ctc" THEN "C" ELSE ""
        op == IF optimizer = "linear" THEN "l"
              ELSE IF optimizer = "adamw" THEN "a" ELSE ""
        m1 == InitLayers([m EXCEPT !.loss_func = lf, !.optimizer = op],
                         0, m.input_dim + m.add_bias, wgt)
        last == m1.layer[m1.num_layers - 1]
        out == IF last.type = "" THEN m1.output_dim ELSE last.net.S
        m2 == [m1 EXCEPT !.output_dim = out,
                         !.ctc = IF lf = "C"
                                 THEN CtcCreate(m1.batch_size, out, 0)
                                 ELSE m1.ctc]
    IN  IF lf = "" \/ op = "" \/ m.num_layers < 1
        THEN [m |-> m, exit |-> TRUE]
        ELSE [m |-> [m2 EXCEPT !.layer = [i \in 0..m2.num_layers-1 |->
                        IF m2.layer[i].type = "" THEN m2.layer[i]
                        ELSE [m2.layer[i] EXCEPT
                                !.grads = [n |-> NumGrads(m2.layer[i].type, op)],
                                !.num_grads = NumGrads(m2.layer[i].type, op)]]],
              exit |-> FALSE]

\* model_set_batch_size(m, batch_size): nothing when the batch size is
\* the model's; else every layer is resized and the CTC calculator, when
\* there is one, is freed and created anew.
ModelSetBatchSize(m, batch_size) ==
    IF m.batch_size = batch_size THEN m
    ELSE [m EXCEPT
            !.batch_size = batch_size,
            !.layer = [i \in 0..m.num_layers-1 |->
                IF m.layer[i].type = "d"
                THEN [m.layer[i] EXCEPT
                        !.net = DenseSetBatchSize(m.layer[i].net, batch_size)]
                ELSE IF m.layer[i].type = "l"
                THEN [m.layer[i] EXCEPT
                        !.net = LstmSetBatchSize(m.layer[i].net, batch_size)]
                ELSE m.layer[i]],
            !.ctc = IF m.ctc # NULL
                    THEN CtcCreate(batch_size, m.output_dim, 0)
                    ELSE m.ctc]

\* reset_state: lstm_reset on every lstm layer; dense_reset does nothing.
ResetState(m) ==
    [m EXCEPT !.layer = [i \in 0..m.num_layers-1 |->
        IF m.layer[i].type = "l"
        THEN [m.layer[i] EXCEPT !.net = LstmReset(m.layer[i].net)]
        ELSE m.layer[i]]]

\* The rows a layer's forward pass returns, as the next layer's batch.
Output(l) == [t \in 0..l.B-1 |-> l.h[t]]

\* model_batch_forward from layer j on, x being the input of layer j.
RECURSIVE ForwardLayers(_, _, _)
ForwardLayers(m, x, j) ==
    IF j >= m.num_layers THEN m
    ELSE LET l  == m.layer[j]
             n  == IF l.type = "d" THEN DenseForward(l.net, x)
                   ELSE LstmForward(l.net, x)
         IN  Eval(n, LAMBDA u :
                ForwardLayers([m EXCEPT !.layer[j].net = u], Output(u), j + 1))

\* A forward pass that also counts as an update, as the training loop does
\* after its backward pass.
ModelBatchForward_updating(m, x) ==
    [ForwardLayers(m, x, 0) EXCEPT !.update_cnt = @ + 1]

\* model_batch_forward(m, x, yp)
ModelBatchForward(m, x) == ForwardLayers(m, x, 0)

\* model_batch_backward reads l.grads[0] (dense) or passes l.grads on to
\* lstm_backward, which reads its entries: true when some layer's grads
\* pointer is NULL, so that the read is of address 0.
BackwardReadsNull(m) == \E i \in 0..m.num_layers-1 : m.layer[i].grads = NULL

\* The tail of model_fit:  if (final) { m->final = 1; free every layer's
\* gradient arrays; num_grads = 0; grads = NULL }
Finalize(m, final) ==
    IF final = 0 THEN m
    ELSE [m EXCEPT !.final = 1,
                   !.layer = [i \in 0..m.num_layers-1 |->
                       IF m.layer[i].grads # NULL
                       THEN [m.layer[i] EXCEPT !.grads = NULL, !.num_grads = 0]
                       ELSE m.layer[i]]]

\* The body of the loop of model_predict: batch_copy(b, xb, NULL), the
\* forward pass through the layers, fltcpy(y, yp[L - 1], cnt * N), y += cnt,
\* until batch_copy returns 0.  y holds the rows written so far.
RECURSIVE PredictLoop(_, _, _, _)
PredictLoop(m, b, xb, y) ==
    Eval(BatchCopy(b, xb, NULL), LAMBDA r :
        IF r.cnt = 0 THEN [m |-> m, y |-> y]
        ELSE Eval(ModelBatchForward(m, r.x), LAMBDA m1 :
               LET yp == Output(m1.layer[m1.num_layers - 1].net)
               IN  PredictLoop(m1, r.b, r.x,
                               y \o [k \in 1..r.cnt |->
                                       [j \in 0..m.output_dim-1 |-> yp[k - 1][j]]])))

\* model_predict(m, x, y, len): the model after the call and the rows
\* written to y.
ModelPredict(m, len) ==
    LET Db == m.input_dim + m.add_bias
        xb == [k \in 0..m.batch_size-1 |-> [j \in 0..Db-1 |-> 0]]
        b  == BatchCreate(m.input_dim, FALSE, 0, m.batch_size, NULL, len, 0,
                          m.add_bias)
    IN  PredictLoop(ResetState(m), b, xb, << >>)

\* The adamw_update calls of model_update for layer j: one for a dense
\* layer (Wx), eight for an LSTM layer, none with the linear optimizer.
LayerSteps(type, optimizer, j, uc) ==
    IF optimizer # "a" THEN << >>
    ELSE IF type = "d" THEN << <<j, "Wx", uc>> >>
    ELSE IF type = "l"
    THEN [k \in 1..8 |->
             <<j, <<"Wf", "Wi", "Wc", "Wo", "Uf", "Ui", "Uc", "Uo">>[k], uc>>]
    ELSE << >>

\* for (j = 0; j < m->num_layers; j++), from layer j on.
RECURSIVE UpdateLayers(_, _, _)
UpdateLayers(m, uc, j) ==
    IF j >= Len(m.layer) THEN << >>
    ELSE LayerSteps(m.layer[j + 1], m.optimizer, j, uc)
         \o UpdateLayers(m, uc, j + 1)

\* model_update with  int uc = m->update_cnt++;
ModelUpdate_postinc(m) ==
    [m |-> [m EXCEPT !.update_cnt = @ + 1],
     steps |-> UpdateLayers(m, m.update_cnt, 0)]

\* model_update(m, lr, wd), as far as the update counter goes:
\* int uc = ++m->update_cnt; then the layers' updates with step uc.
ModelUpdate(m) ==
    [m |-> [m EXCEPT !.update_cnt = @ + 1],
     steps |-> UpdateLayers(m, m.update_cnt + 1, 0)]

\* -------------------------------------- model/model.c: get_epoch_params
\* A C string is a sequence of characters; position 0 is the NULL pointer.
DigitChars == <<"0", "1", "2", "3", "4", "5", "6", "7", "8", "9">>

IsDigit(c) == \E d \in 1..10 : DigitChars[d] = c

DigitVal(c) == (CHOOSE d \in 1..10 : DigitChars[d] = c) - 1

\* The decimal text of n >= 0.
RECURSIVE Decimal(_)
Decimal(n) ==
    IF n < 10 THEN <<DigitChars[n + 1]>>
    ELSE Decimal(n \div 10) \o <<DigitChars[(n % 10) + 1]>>

\* A number conversion of sscanf at position p of s: the digits read so
\* far have the value n; ok says whether a digit was read.
RECURSIVE ScanDigits(_, _, _, _)
ScanDigits(s, p, n, ok) ==
    IF p <= Len(s) /\ IsDigit(s[p])
    THEN ScanDigits(s, p + 1, 10 * n + DigitVal(s[p]), TRUE)
    ELSE [val |-> n, p |-> p, ok |-> ok]

\* c = sscanf(sch, "%d:%f:%f", &e, &l, &w) at position p: the number of
\* conversions made (0 stands for 0 and EOF) and the values converted.
ScanSegment(s, p) ==
    LET a == ScanDigits(s, p, 0, FALSE)
        b == ScanDigits(s, a.p + 1, 0, FALSE)
        w == ScanDigits(s, b.p + 1, 0, FALSE)
        colonA == a.p <= Len(s) /\ s[a.p] = ":"
        colonB == b.p <= Len(s) /\ s[b.p] = ":"
    IN  IF ~a.ok THEN [c |-> 0, e |-> 0, l |-> 0, w |-> 0]
        ELSE IF ~colonA \/ ~b.ok THEN [c |-> 1, e |-> a.val, l |-> 0, w |-> 0]
        ELSE IF ~colonB \/ ~w.ok
             THEN [c |-> 2, e |-> a.val, l |-> b.val, w |-> 0]
        ELSE [c |-> 3, e |-> a.val, l |-> b.val, w |-> w.val]

\* index(sch, ','): the position of the first comma at or after p, 0 when
\* there is none.
RECURSIVE IndexComma(_, _)
IndexComma(s, p) ==
    IF p > Len(s) THEN 0
    ELSE IF s[p] = "," THEN p ELSE IndexComma(s, p + 1)

\* The while loop of get_epoch_params with sch at position p and te the
\* epochs of the segments passed.
RECURSIVE EpochParamsLoop(_, _, _, _, _, _)
EpochParamsLoop(s, p, epoch, te, lr, wd) ==
    IF p = 0 THEN [lr |-> lr, wd |-> wd]
    ELSE LET seg == ScanSegment(s, p)
             te1 == te + seg.e
             wd1 == IF seg.c >= 3 THEN seg.w ELSE wd
             lr1 == IF seg.c >= 2 THEN seg.l ELSE lr
             q   == IndexComma(s, p)
             nxt == IF q = 0 \/ q + 1 > Len(s) THEN 0 ELSE q + 1
         IN  IF seg.c = 0 THEN [lr |-> lr, wd |-> wd]
             ELSE IF epoch < te1 THEN [lr |-> lr1, wd |-> wd1]
             ELSE EpochParamsLoop(s, nxt, epoch, te1, lr1, wd1)

\* get_epoch_params that stops at the first segment.
GetEpochParams_first(s, epoch, lr, wd) ==
    LET seg == ScanSegment(s, 1)
    IN  [lr |-> IF seg.c >= 2 THEN seg.l ELSE lr,
         wd |-> IF seg.c >= 3 THEN seg.w ELSE wd]

\* get_epoch_params(sch, epoch, &lr, &wd): the values of *lr and *wd
\* after the call.
GetEpochParams(s, epoch, lr, wd) == EpochParamsLoop(s, 1, epoch, 0, lr, wd)

\* ------------------------------------------------- model/embedding.h, .c
\* embedding_create(embedding_dim, context_len, padinx) followed by
\* embedding_init(l, vocab_size, batch_size) with the weights wx drawn by
\* urand; the row of an in-range pad index is cleared.  Arrays are flat,
\* 0-based, row-major, as in memory.
EmbeddingInit(embedding_dim, context_len, padinx, vocab_size, batch_size, wx) ==
    [D |-> vocab_size, S |-> embedding_dim, B |-> batch_size,
     M |-> context_len, E |-> embedding_dim, padinx |-> padinx,
     h |-> [n \in 0..batch_size * embedding_dim - 1 |-> 0],
     Wx |-> [n \in 0..vocab_size * embedding_dim - 1 |->
               IF padinx >= 0 /\ padinx < vocab_size
                  /\ n \div embedding_dim = padinx
               THEN 0 ELSE wx[n]]]

\* The three nested loops of embedding_forward from iteration n on
\* (n = (i * M + j) * E + k):   h[i][j] += Wx[(int)X[i][j]][k]
\* h[i][j] is the element i * S + j of the buffer; a write past the end
\* of the buffer is left out here and reported by EmbeddingOverrun.
RECURSIVE EmbeddingLoop(_, _, _, _)
EmbeddingLoop(l, X, h, n) ==
    IF n >= l.B * l.M * l.E THEN h
    ELSE LET i == n \div (l.M * l.E)
             j == (n \div l.E) % l.M
             k == n % l.E
             at == i * l.S + j
         IN  EmbeddingLoop(l, X,
                 IF at < l.B * l.S
                 THEN [h EXCEPT ![at] = @ + l.Wx[X[i * l.M + j] * l.E + k]]
                 ELSE h,
                 n + 1)

\* embedding_forward(l, X, lyr): the layer after the call.
EmbeddingForward(l, X) ==
    [l EXCEPT !.h = EmbeddingLoop(l, X, [n \in 0..l.B * l.S - 1 |-> 0], 0)]

\* Whether embedding_forward writes past the end of h.
EmbeddingOverrun(l) == (l.B - 1) * l.S + (l.M - 1) >= l.B * l.S

\* ------------------------- data/modelio.c, data/denseio.c, data/lstmio.c
\* The heap is the set of blocks allocated and not freed.  A layer's
\* network is two blocks, <<"net", i>> (the DENSE or LSTM structure) and
\* <<"netbufs", i>> (all the arrays it points to, which are allocated and
\* freed together); the CTC calculator likewise <<"ctc">> and <<"ctcbufs">>.
\*
\* freemem(p): nothing for NULL; dbl records a block freed twice.
Free(hp, blk) ==
    IF blk = NULL THEN hp
    ELSE [live |-> hp.live \ {blk}, dbl |-> hp.dbl \/ blk \notin hp.live]

RECURSIVE FreeAll(_, _)
FreeAll(hp, blks) ==
    IF blks = << >> THEN hp ELSE FreeAll(Free(hp, Head(blks)), Tail(blks))

\* model_free(m) from layer i on, for the model record st.  Reading
\* m->layer[i] of a NULL layer array, and dense_free / lstm_free of a NULL
\* network, dereference NULL: crashed.
RECURSIVE ModelFreeLayers(_, _, _)
ModelFreeLayers(st, hp, i) ==
    IF i >= st.num_layers THEN [hp |-> hp, crashed |-> FALSE]
    ELSE IF st.layer = NULL THEN [hp |-> hp, crashed |-> TRUE]
    ELSE LET l == st.layer[i]
         IN  IF l.type \in {"d", "l"} /\ l.net = NULL
             THEN [hp |-> hp, crashed |-> TRUE]
             ELSE LET h1 == IF l.type \in {"d", "l"}
                            THEN FreeAll(hp, <<<<"netbufs", i>>, l.net>>)
                            ELSE hp
                      h2 == IF l.grads # NULL
                            THEN Free(FreeAll(h1,
                                     [j \in 1..l.num_grads |-> l.grad[j]]),
                                     l.grads)
                            ELSE h1
                  IN  ModelFreeLayers(st, h2, i + 1)

\* model_free(m): the layers, then freemem of ctc, mean, sdev, layer, m.
ModelFree(st, hp) ==
    LET r == ModelFreeLayers(st, hp, 0)
    IN  IF r.crashed THEN r
        ELSE [hp |-> FreeAll(r.hp, <<st.ctc, st.mean, st.sdev,
                                     IF st.layer = NULL THEN NULL
                                     ELSE <<"layer">>, <<"m">>>>),
              crashed |-> FALSE]

\* The err: exit of read_model.
ReadErr(st, hp) ==
    LET r == ModelFree(st, hp)
    IN  [ret |-> IF r.crashed THEN "none" ELSE "NULL",
         crashed |-> r.crashed, live |-> r.hp.live,
         dbl |-> r.hp.dbl, diag |-> TRUE]

\* read_dense / read_lstm for layer i of file f: the pointer returned and
\* the heap.  A bad header or activation code returns NULL before anything
\* is allocated; bad weights free what was allocated and return NULL.
ReadNet(f, hp, i) ==
    IF f.fault.i = i /\ f.fault.at \in {"net", "weights"}
    THEN [net |-> NULL, hp |-> hp]
    ELSE [net |-> <<"net", i>>,
          hp |-> [hp EXCEPT !.live = @ \cup {<<"net", i>>, <<"netbufs", i>>}]]

\* The layer loop of read_model from layer i on.  ok is the local of that
\* name: "true", "false", or "undef" while nothing has been assigned to it.
\* Returns the set of outcomes (an undefined ok may test either way).
RECURSIVE ReadLayers(_, _, _, _, _)
ReadLayers(f, st, hp, ok, i) ==
    IF i >= st.num_layers
    THEN {[ret |-> "model", crashed |-> FALSE, live |-> hp.live,
           dbl |-> hp.dbl, diag |-> FALSE]}
    ELSE
    LET here == f.fault.i = i
        cnt  == IF here /\ f.fault.at = "layer" THEN f.fault.cnt ELSE 2
        type == IF cnt < 1 THEN ""
                ELSE IF here /\ f.fault.at = "type" THEN "x" ELSE f.type[i]
        ng   == IF cnt < 2 THEN 0 ELSE f.ng[i]
        st1  == [st EXCEPT !.layer[i].type = type, !.layer[i].num_grads = ng]
        rn   == ReadNet(f, hp, i)
        net  == IF type \in {"d", "l"} THEN rn.net ELSE NULL
        hp2  == IF type \in {"d", "l"} THEN rn.hp ELSE hp
        ok2  == IF type \in {"d", "l"}
                THEN (IF net # NULL THEN "true" ELSE "false") ELSE ok
        st2  == [st1 EXCEPT !.layer[i].net = net]
        \* the gradient arrays: grads[0] is allocated, then read
        gbad == here /\ f.fault.at = "grads"
        nrd  == IF type \notin {"d", "l"} THEN 0
                ELSE IF gbad THEN 1 ELSE ng
        st3  == [st2 EXCEPT !.layer[i].grads = <<"grads", i>>,
                            !.layer[i].grad =
                                [j \in 1..ng |-> IF j <= nrd
                                                 THEN <<"grad", i, j>>
                                                 ELSE NULL]]
        hp3  == [hp2 EXCEPT !.live = @ \cup {<<"grads", i>>}
                                \cup {<<"grad", i, j>> : j \in 1..nrd}]
        After(okNow) ==
            IF ~okNow THEN {ReadErr(st2, hp2)}
            ELSE IF ng > 0
                 THEN IF gbad /\ type \in {"d", "l"} THEN {ReadErr(st3, hp3)}
                      ELSE ReadLayers(f, st3, hp3, "true", i + 1)
                 ELSE ReadLayers(f, st2, hp2, ok2, i + 1)
    IN  IF cnt < 2 THEN {ReadErr(st1, hp)}
        ELSE IF ok2 = "undef" THEN After(TRUE) \cup After(FALSE)
        ELSE After(ok2 = "true")

\* read_model(fp) on file f: the set of outcomes.
ReadModel(f) ==
    LET m0  == [num_layers |-> 0, layer |-> NULL, ctc |-> NULL,
                mean |-> NULL, sdev |-> NULL]
        hp0 == [live |-> {<<"m">>}, dbl |-> FALSE]
        hcnt == IF f.fault.at = "header" THEN f.fault.cnt ELSE 10
        m1  == [m0 EXCEPT !.num_layers = IF hcnt >= 1 THEN f.nl ELSE 0]
        m2  == [m1 EXCEPT !.layer = [i \in 0..f.nl - 1 |->
                   [type |-> "", net |-> NULL, num_grads |-> 0,
                    grads |-> NULL, grad |-> << >>]]]
        hp2 == [hp0 EXCEPT !.live = @ \cup {<<"layer">>}]
        m3  == IF f.normalize = 1
               THEN [m2 EXCEPT !.mean = <<"mean">>, !.sdev = <<"sdev">>]
               ELSE m2
        hp3 == IF f.normalize = 1
               THEN [hp2 EXCEPT !.live = @ \cup {<<"mean">>, <<"sdev">>}]
               ELSE hp2
        ok3 == IF f.normalize = 1 THEN "true" ELSE "undef"
        m4  == IF f.loss = "C" THEN [m3 EXCEPT !.ctc = <<"ctc">>] ELSE m3
        hp4 == IF f.loss = "C"
               THEN [hp3 EXCEPT !.live = @ \cup {<<"ctc">>, <<"ctcbufs">>}]
               ELSE hp3
    IN  IF hcnt < 10 THEN {ReadErr(m1, hp0)}
        ELSE IF f.normalize = 1 /\ f.fault.at = "mean" THEN {ReadErr(m3, hp3)}
        ELSE IF f.loss = "C" /\ f.fault.at = "ctc" THEN {ReadErr(m3, hp3)}
        ELSE ReadLayers(f, m4, hp4, ok3, 0)

\* ------------------------------------------------- data/hash.h, data/hash.c
\* A C string is the sequence of its characters; in memory it ends with NUL.
NUL == "NUL"

CharCode(c) == IF c = "a" THEN 97 ELSE 98

\* djb2_hash: hash = hash * 33 + c from 5381.  The strings hashed here are
\* short enough for the unsigned arithmetic not to wrap.
RECURSIVE Djb2(_, _)
Djb2(str, h) ==
    IF str = << >> THEN h ELSE Djb2(Tail(str), h * 33 + CharCode(Head(str)))

\* hash(str) = djb2_hash(str) % (UINT_MAX / 2)
Hash(str) == Djb2(str, 5381) % 2147483647

\* hashmap_create(map_size, mem_size)
HashmapCreate(map_size, mem_size) ==
    [i2s |-> [i \in 0..map_size - 1 |-> 0],
     s2i |-> [i \in 0..map_size - 1 |-> 0],
     map |-> [i \in 0..map_size - 1 |-> -1],
     map_size |-> map_size, map_used |-> 0,
     mem |-> [k \in 0..mem_size - 1 |-> NUL],
     mem_size |-> mem_size, mem_used |-> 0]

\* The string stored at m->mem + off.
RECURSIVE CStr(_, _)
CStr(mem, off) ==
    IF off \notin DOMAIN mem \/ mem[off] = NUL THEN << >>
    ELSE <<mem[off]>> \o CStr(mem, off + 1)

\* The insertion of str at the empty slot hinx (hash.c:52-68).
HashmapInsert(m, str, hinx) ==
    LET len  == Len(str) + 1
        grow == m.mem_used + len >= m.mem_size
        size == IF grow THEN (m.mem_size * 3) \div 2 + len ELSE m.mem_size
        mem  == [k \in 0..size - 1 |->
                   IF k >= m.mem_used /\ k < m.mem_used + Len(str)
                   THEN str[k - m.mem_used + 1]
                   ELSE IF k >= m.mem_used THEN NUL
                   ELSE m.mem[k]]
    IN  [m |-> [m EXCEPT !.mem = mem, !.mem_size = size,
                         !.map[hinx] = m.mem_used,
                         !.mem_used = m.mem_used + len,
                         !.i2s[m.map_used] = hinx,
                         !.s2i[hinx] = m.map_used,
                         !.map_used = m.map_used + 1],
         ret |-> m.map_used]

\* hashmap_str2inx_int that never compares the stored string.
RECURSIVE HashmapProbe_nocmp(_, _, _, _, _)
HashmapProbe_nocmp(m, str, ins, hinx, first) ==
    IF m.map[hinx] < 0
    THEN IF ins = 0 \/ m.map_used >= m.map_size THEN [m |-> m, ret |-> -1]
         ELSE HashmapInsert(m, str, hinx)
    ELSE LET nxt == IF hinx + 1 >= m.map_size THEN 0 ELSE hinx + 1
         IN  IF nxt = first THEN [m |-> m, ret |-> -1]
             ELSE HashmapProbe_nocmp(m, str, ins, nxt, first)

\* The for (;;) loop of hashmap_str2inx_int at slot hinx.
RECURSIVE HashmapProbe(_, _, _, _, _)
HashmapProbe(m, str, ins, hinx, first) ==
    IF m.map[hinx] < 0
    THEN IF ins = 0 \/ m.map_used >= m.map_size THEN [m |-> m, ret |-> -1]
         ELSE HashmapInsert(m, str, hinx)
    ELSE IF CStr(m.mem, m.map[hinx]) = str
    THEN [m |-> m, ret |-> m.s2i[hinx]]
    ELSE LET nxt == IF hinx + 1 >= m.map_size THEN 0 ELSE hinx + 1
         IN  IF nxt = first THEN [m |-> m, ret |-> -1]
             ELSE HashmapProbe(m, str, ins, nxt, first)

\* hashmap_str2inx(m, str, ins): the map after the call and the value
\* returned.
HashmapStr2Inx(m, str, ins) ==
    LET hinx == Hash(str) % m.map_size
    IN  IF m.map[hinx] >= 0 /\ CStr(m.mem, m.map[hinx]) = str
        THEN [m |-> m, ret |-> m.s2i[hinx]]
        ELSE HashmapProbe(m, str, ins, hinx, hinx)

\* hashmap_inx2str(m, inx)
HashmapInx2Str(m, inx) ==
    IF inx >= 0 /\ inx < m.map_used /\ m.map[m.i2s[inx]] >= 0
    THEN CStr(m.mem, m.map[m.i2s[inx]])
    ELSE << >>

\* ------------------------------------------------------- numeric/loss.h
\* A number all of 1..n divide: gradients are held in units of 1 / n!.
RECURSIVE Factorial(_)
Factorial(n) == IF n <= 1 THEN 1 ELSE n * Factorial(n - 1)

\* dLdy_mean_square_error(yp, yt, dy, M, N) with N = 1: rows 0..M-1 of dy
\* become 2 * (yp - yt) / N / M, the other rows are left as they are.
\* scale is the unit of dy.
DLdyMeanSquareError(yp, yt, dy, M, scale) ==
    [k \in DOMAIN dy |->
        IF k < M
        THEN [j \in DOMAIN dy[k] |-> 2 * (yp[k][j] - yt[k][j]) * (scale \div M)]
        ELSE dy[k]]

\* ------------------------------------------ numeric/clip.h, model/adamw.c
\* A float is a record: not-a-number, or zero, or sgn * 10^exp.
FNaN == [nan |-> TRUE, sgn |-> 0, exp |-> 0]

FZero == [nan |-> FALSE, sgn |-> 0, exp |-> 0]

FPow(sgn, exp) == [nan |-> FALSE, sgn |-> sgn, exp |-> exp]

\* a > b and a < b on floats: false when either is not a number.
FGt(a, b) ==
    /\ ~a.nan /\ ~b.nan
    /\ \/ a.sgn > b.sgn
       \/ a.sgn = 1 /\ b.sgn = 1 /\ a.exp > b.exp
       \/ a.sgn = -1 /\ b.sgn = -1 /\ a.exp < b.exp

FLt(a, b) == FGt(b, a)

\* fabsf(a) and -a
FAbs(a) == IF a.nan \/ a.sgn = 0 THEN a ELSE [a EXCEPT !.sgn = 1]

FNeg(a) == IF a.nan THEN a ELSE [a EXCEPT !.sgn = 0 - a.sgn]

\* One element of clip_gradients:
\*     m = fabsf(g);
\*     if (m > gmax) g = (g > 0) ? gmax : -gmax;
\*     else if (m < gmin) g = (g > 0) ? gmin : -gmin;
ClipOne(g, lo, hi) ==
    LET m == FAbs(g)
    IN  IF FGt(m, hi) THEN (IF FGt(g, FZero) THEN hi ELSE FNeg(hi))
        ELSE IF FLt(m, lo) THEN (IF FGt(g, FZero) THEN lo ELSE FNeg(lo))
        ELSE g

\* clip_gradients(ga, M, N, gmin, gmax)
ClipGradients(arr, M, N, lo, hi) ==
    [i \in 0..M-1 |-> [j \in 0..N-1 |-> ClipOne(arr[i][j], lo, hi)]]

\* The bounds adamw_update clips with: 1.0e-12 and 10.0.
AdamwGmin == FPow(1, -12)

AdamwGmax == FPow(1, 1)

\* *v = beta2 * (*v) + (1.0 - beta2) * (*g) * (*g), to the order of
\* magnitude: the larger of v and g * g / 1000.
Moment2(v, g) ==
    IF v.nan \/ g.nan THEN FNaN
    ELSE IF g.sgn = 0 THEN v
    ELSE IF v.sgn = 1 /\ v.exp > 2 * g.exp - 3 THEN v
    ELSE FPow(1, 2 * g.exp - 3)

\* adamw on one element without the test of *v.
Adamw_unchecked(t, i, j) ==
    [t EXCEPT !.v[i][j] = Moment2(t.v[i][j], t.g[i][j]),
              !.cnt[i][j] = @ + 1]

\* adamw on element (i, j) of t = [g, v, cnt, exit]:
\*     if (*v < 0) exit(-1);  update *m, *v and *w
Adamw(t, i, j) ==
    IF FLt(t.v[i][j], FZero) THEN [t EXCEPT !.exit = TRUE]
    ELSE [t EXCEPT !.v[i][j] = Moment2(t.v[i][j], t.g[i][j]),
                   !.cnt[i][j] = @ + 1]

\* The loops of adamw_update from element k (row k \div N, column k % N).
RECURSIVE AdamwLoop(_, _, _, _)
AdamwLoop(t, M, N, k) ==
    IF k >= M * N \/ t.exit THEN t
    ELSE Eval(Adamw(t, k \div N, k % N),
              LAMBDA u : AdamwLoop(u, M, N, k + 1))

\* adamw_update(w, g, m, v, M, N, ..): clip_gradients, then adamw on every
\* element in row order.  cnt counts the updates applied to each element.
AdamwUpdate(g, v, M, N) ==
    AdamwLoop([g |-> ClipGradients(g, M, N, AdamwGmin, AdamwGmax),
               v |-> v,
               cnt |-> [i \in 0..M-1 |-> [j \in 0..N-1 |-> 0]],
               exit |-> FALSE], M, N, 0)

\* ------------------------------------------- the batch iterator in use
\* Seeds handed to init_lrng: the one the repository's programs use, zero,
\* and one whose first draw is the largest generator state.
Seeds == {42, 0, 247665088}

\* The lengths arrays and dataset sizes a caller may pass.
LenArrays == UNION {[0..n-1 -> 0..MaxSeqLen] : n \in 1..MaxSeqs}

\* What the cells past the end of shufSeq / shufVec and of shufLen may hold
\* when first read, and the mark of cells not read yet.
Garbage == [off : 0..MaxGarbage, len : 0..MaxGarbage]

Unread == [off |-> -1, len |-> -1]

\* Total number of dataset rows: the sum of len[] when a lengths array is
\* passed, num otherwise (MTr in model_fit).
RECURSIVE SumLen(_, _)
SumLen(len, n) == IF n = 0 THEN 0 ELSE SumLen(len, n - 1) + len[n - 1]

Total(len, num) == IF len # NULL THEN SumLen(len, num) ELSE num

\* The variables of the layers and of the iterator where they play no part.
LstmUnused ==
    /\ lstmA = NULL /\ lstmB = NULL /\ xseq = NULL
    /\ hA = << >> /\ hB = << >> /\ nA = 0 /\ nB = 0 /\ bwdA = 0

ModelUnused ==
    /\ mdl = NULL /\ pc = "start" /\ fit = NULL /\ bVd = NULL
    /\ fwdLog = << >> /\ nfit = 0 /\ bwdFinal = FALSE
    /\ predLen = -1 /\ yout = << >> /\ npred = 0

OptUnused ==
    /\ optPc = "idle" /\ gmin = NULL /\ gmax = NULL /\ ga0 = NULL /\ ga = NULL
    /\ va0 = NULL /\ va = NULL /\ wcnt = NULL

SchedUnused ==
    /\ sch = NULL /\ segs = NULL /\ schEpoch = 0
    /\ learning_rate = 0 /\ weight_decay = 0 /\ schLog = << >>

EmbUnused == emb = NULL /\ embX = NULL /\ embPc = "unused"

CtcUnused ==
    /\ ctc = NULL /\ ctcPc = "unused" /\ accT = 0 /\ acc = NULL
    /\ lossArgs = NULL

TwinUnused == runA = NULL /\ runB = NULL /\ twinOps = 0

ReadUnused == rdFile = NULL /\ rdOut = NULL /\ rdPc = "unused"

ResizeUnused ==
    rzL = NULL /\ rzD = NULL /\ rzPrev = NULL /\ rzOp = "unused" /\ rzCnt = 0

HashUnused ==
    hm = NULL /\ hmGiven = NULL /\ hmQuiet = TRUE /\ hmOps = 0

GradUnused ==
    /\ gL = NULL /\ gX = NULL /\ gCnt = 0 /\ gDy = NULL /\ gWx = NULL
    /\ gOps = 0

UpdUnused ==
    /\ updM = NULL /\ updPc = "unused" /\ updFit = NULL
    /\ updTrained = 0 /\ updSteps = << >>

SetbUnused ==
    /\ sbM = NULL /\ sbPc = "unused" /\ sbOps = 0

AuxUnused ==
    /\ OptUnused /\ SchedUnused /\ EmbUnused /\ CtcUnused /\ TwinUnused
    /\ ReadUnused /\ ResizeUnused
    /\ HashUnused
    /\ GradUnused
    /\ UpdUnused
    /\ SetbUnused

BatchUnused ==
    /\ lrng_seed = 0 /\ lenArg = NULL /\ bat = NULL
    /\ xbuf = NULL /\ ybuf = NULL /\ ret = -1
    /\ lastIdx = << >> /\ yielded = << >> /\ zeroAt = -1
    /\ nshuf = 0 /\ past = Unread /\ overrun = FALSE

\* What batch_shuffle may leave behind.  The cells past the tables are
\* read only by a swap that leaves a table; read for the first time, they
\* hold any of Garbage.
ShuffleOutcomes(b, seed, cell) ==
    LET r == BatchShuffle(b, seed, cell)
    IN  IF r.over /\ cell = Unread
        THEN {BatchShuffle(b, seed, g) : g \in Garbage}
        ELSE {r}

BatchInit ==
    /\ lrng_seed \in {InitLrng(s) : s \in Seeds}
    /\ \E len \in LenArrays \cup {NULL}, n \in 1..MaxSeqs*MaxSeqLen,
          B \in 1..MaxB, shuffle \in 0..1, add_bias \in 0..1, hasY \in BOOLEAN :
          LET num == IF len # NULL THEN Cardinality(DOMAIN len) ELSE n
          IN  /\ len # NULL => n = 1
              /\ lenArg = len
              /\ bat = BatchCreate(Dim, hasY, 1, B, len, num, shuffle, add_bias)
              /\ xbuf = [k \in 0..B-1 |-> [j \in 0..Dim+add_bias-1 |-> 0]]
              /\ ybuf = IF hasY THEN [k \in 0..B-1 |-> [j \in 0..0 |-> 0]]
                      ELSE NULL
    /\ ret = -1
    /\ lastIdx = << >>
    /\ yielded = << >>
    /\ zeroAt = -1
    /\ nshuf = 0
    /\ past = Unread
    /\ overrun = FALSE
    /\ LstmUnused
    /\ ModelUnused
    /\ AuxUnused

\* batch_shuffle(b), called as model_fit calls it: before the first
\* batch_copy and again once a batch_copy has returned 0.
Shuffle ==
    /\ nshuf < MaxShuffles
    /\ nshuf = 0 \/ ret = 0
    /\ \E r \in ShuffleOutcomes(bat, lrng_seed, past) :
          /\ bat' = r.b
          /\ lrng_seed' = r.seed
          /\ overrun' = (overrun \/ r.over)
          /\ past' = r.past
    /\ nshuf' = nshuf + 1
    /\ ret' = -1
    /\ lastIdx' = << >>
    /\ yielded' = << >>
    /\ zeroAt' = -1
    /\ UNCHANGED <<lenArg, xbuf, ybuf>>
    /\ UNCHANGED <<lstmVars, modelVars, auxVars>>

\* cnt = batch_copy(b, x, yt), after a batch_shuffle
Copy ==
    /\ nshuf > 0
    /\ LET r == BatchCopy(bat, xbuf, ybuf)
       IN  /\ bat' = r.b
           /\ xbuf' = r.x
           /\ ybuf' = r.y
           /\ ret' = r.cnt
           /\ lastIdx' = r.idx
           /\ yielded' = yielded \o r.idx
           /\ zeroAt' = IF zeroAt < 0 /\ r.cnt = 0 THEN Len(yielded) ELSE zeroAt
    /\ UNCHANGED <<lrng_seed, lenArg, nshuf, past, overrun>>
    /\ UNCHANGED <<lstmVars, modelVars, auxVars>>

BatchNext == Shuffle \/ Copy

SpecBatch == BatchInit /\ [][BatchNext]_vars

\* ----------------------------------------------- claims on the iterator
\* The dataset rows, and how often a value occurs in a sequence.
Rows == 0 .. Total(lenArg, bat.num) - 1

Count(seq, v) == Cardinality({k \in DOMAIN seq : seq[k] = v})

\* The rows read up to the first 0 returned since the last batch_shuffle.
FirstPass == SubSeq(yielded, 1, zeroAt)

\* C2: in every mode, the counts returned by the batch_copy calls after a
\* batch_shuffle, up to the first 0, sum to the dataset size (the sum of
\* len[] when a lengths array was passed, num otherwise) and every dataset
\* row is yielded exactly once in that pass.
C2_PassYieldsEveryRowOnce ==
    zeroAt >= 0 =>
        /\ zeroAt = Total(lenArg, bat.num)
        /\ \A i \in Rows : Count(FirstPass, i) = 1

\* C3: batch_copy returns 0 only when every row has been yielded since the
\* last batch_shuffle, and once it has returned 0 no later call (before the
\* next batch_shuffle) yields a row.
C3_ZeroOnlyWhenExhausted ==
    /\ ret = 0 => \A i \in Rows : Count(yielded, i) >= 1
    /\ zeroAt >= 0 => Len(yielded) = zeroAt

\* The sequence of the lengths array that holds dataset row i (-1: none).
SeqOf(i) ==
    LET S == {q \in DOMAIN lenArg :
                 /\ SeqOffset(lenArg, q) <= i
                 /\ i < SeqOffset(lenArg, q) + lenArg[q]}
    IN  IF S = {} THEN -1 ELSE CHOOSE q \in S : TRUE

\* C7: in sequence-grouped mode the rows of a batch are consecutive rows
\* of one sequence, in their original order, and the batches of one
\* sequence come back to back: no row of a sequence follows a row of
\* another sequence once that sequence has been left.
C7_BatchWithinOneSequence ==
    bat.shufSeq # NULL =>
        /\ \A k \in 1..Len(lastIdx) :
              /\ SeqOf(lastIdx[k]) >= 0
              /\ SeqOf(lastIdx[k]) = SeqOf(lastIdx[1])
              /\ lastIdx[k] = lastIdx[1] + (k - 1)
        /\ \A i, j, k \in 1..Len(yielded) :
              (i < j /\ j < k /\ SeqOf(yielded[i]) = SeqOf(yielded[k]))
                  => SeqOf(yielded[j]) = SeqOf(yielded[i])

\* C8: after any number of batch_shuffle calls shufVec is a permutation of
\* 0..num-1 and the (shufSeq[i], shufLen[i]) pairs are a permutation of the
\* original (offset, length) pairs.
C8_TablesArePermutations ==
    /\ bat.shufVec # NULL =>
          \A i \in 0..bat.num-1 :
              Cardinality({k \in 0..bat.num-1 : bat.shufVec[k] = i}) = 1
    /\ bat.shufSeq # NULL =>
          \A q \in 0..bat.num-1 :
              Cardinality({k \in 0..bat.num-1 :
                              /\ bat.shufSeq[k] = SeqOffset(lenArg, q)
                              /\ bat.shufLen[k] = lenArg[q]})
              = Cardinality({k \in 0..bat.num-1 :
                              /\ SeqOffset(lenArg, k) = SeqOffset(lenArg, q)
                              /\ lenArg[k] = lenArg[q]})

\* C27: once batch_shuffle has drawn, the generator state is in
\* 1..2^31-2 and no swap index has left the shuffle tables.
C27_DrawsStayInRange ==
    (nshuf > 0 /\ bat.shuffle = 1 /\ bat.num > 1) =>
        /\ 1 <= lrng_seed /\ lrng_seed <= modulus - 1
        /\ ~overrun

\* C30: in every mode, the label row k of a batch is the dataset's label
\* row of the index the input row k was read from, for every k below the
\* count returned.
C30_LabelsFollowInputs ==
    (ret > 0 /\ bat.hasY) =>
        \A k \in 0..ret - 1 :
            /\ \A j \in 0..bat.D - 1 : xbuf[k][j] = Xs(lastIdx[k + 1], j)
            /\ \A j \in 0..bat.N - 1 : ybuf[k][j] = Ys(lastIdx[k + 1], j)

\* After a second shuffle, a batch from inside a sequence: its rows do
\* not start at the head of the sequence.
C30_SeqWitness ==
    /\ nshuf = 2 /\ ret > 0 /\ bat.hasY /\ bat.shufSeq # NULL
    /\ bat.shuffle = 1
    /\ \E q \in 0..bat.num - 1 :
           /\ lastIdx[1] > bat.shufSeq[q]
           /\ lastIdx[1] < bat.shufSeq[q] + bat.shufLen[q]
    /\ ybuf[0][0] = Ys(lastIdx[1], 0)

Weights == [W : {-1, 1}, U : {-1, 1}]

Activations == {"n", "s", "r"}

Features == 0..1

\* Rows from..from+B-1 of the input sequence as a batch [B][D].
Rows2D(from, B) == [t \in 0..B-1 |-> xseq[from + t]]

\* The rows a forward pass returns, h[0..B-1], in order.
Hidden(l) == [t \in 1..l.B |-> l.h[t - 1]]

LayersInit ==
    /\ \E B \in 1..MaxB, act \in Activations, st \in 0..1, wgt \in Weights :
          /\ lstmA = LstmInit(LstmCreate(Units, act, st), Dim, B, wgt)
          /\ lstmB = LstmInit(LstmCreate(Units, act, st), Dim, 2 * B, wgt)
          /\ \E v \in [0..2*B-1 -> Features] :
                xseq = [t \in 0..2*B-1 |-> [d \in 0..Dim-1 |-> v[t]]]
    /\ hA = << >> /\ hB = << >> /\ nA = 0 /\ nB = 0 /\ bwdA = 0
    /\ BatchUnused
    /\ ModelUnused
    /\ AuxUnused

\* lstm_forward(lstmA, the next half of the sequence)
ForwardHalf ==
    /\ nA < 2
    /\ LET l == LstmForward(lstmA, Rows2D(nA * lstmA.B, lstmA.B))
       IN  /\ lstmA' = l
           /\ hA' = hA \o Hidden(l)
    /\ nA' = nA + 1
    /\ bwdA' = 0
    /\ UNCHANGED <<lstmB, xseq, hB, nB>>
    /\ UNCHANGED <<batchVars, modelVars, auxVars>>

\* lstm_forward(lstmB, the whole sequence)
ForwardWhole ==
    /\ nB < 1
    /\ LET l == LstmForward(lstmB, Rows2D(0, lstmB.B))
       IN  /\ lstmB' = l
           /\ hB' = Hidden(l)
    /\ nB' = 1
    /\ UNCHANGED <<lstmA, xseq, hA, nA, bwdA>>
    /\ UNCHANGED <<batchVars, modelVars, auxVars>>

\* lstm_reset on both layers, before the sequence is fed again
ResetLayers ==
    /\ nA > 0 \/ nB > 0
    /\ lstmA' = LstmReset(lstmA)
    /\ lstmB' = LstmReset(lstmB)
    /\ hA' = << >> /\ hB' = << >> /\ nA' = 0 /\ nB' = 0 /\ bwdA' = 0
    /\ UNCHANGED xseq
    /\ UNCHANGED <<batchVars, modelVars, auxVars>>

\* lstm_backward(lstmA, ..) after a forward pass, as the training loop
\* calls it, at most once per forward pass.
BackwardHalf ==
    /\ nA > 0
    /\ bwdA < 1
    /\ lstmA' = LstmBackward(lstmA)
    /\ bwdA' = bwdA + 1
    /\ UNCHANGED <<lstmB, xseq, hA, hB, nA, nB>>
    /\ UNCHANGED <<batchVars, modelVars, auxVars>>

LstmNext == ForwardHalf \/ ForwardWhole \/ ResetLayers \/ BackwardHalf

SpecLstm == LayersInit /\ [][LstmNext]_vars

\* C4: a stateful layer that starts from a zero carry and is fed a sequence
\* of 2B rows as two batches of B rows ends with the same carry (ph, pc),
\* and returns the same hidden row for every time step, as a layer with the
\* same weights fed the sequence as one batch of 2B rows.
C4_TwoHalvesEqualWhole ==
    (lstmA.stateful = 1 /\ nA = 2 /\ nB = 1) =>
        /\ lstmA.ph = lstmB.ph
        /\ lstmA.pc = lstmB.pc
        /\ hA = hB

\* Both layers are stateful and have been fed the whole sequence, and the
\* carry handed from the first half to the second was not zero.
C4_Witness ==
    /\ lstmA.stateful = 1 /\ nA = 2 /\ nB = 1
    /\ hA[lstmA.B] # ZeroVec(Units)
    /\ lstmA.pc # ZeroVec(Units)
    /\ hA[2 * lstmA.B] # hA[lstmA.B]

\* C12: the state lstm_forward uses at time step 0 is the carry saved at
\* the end of the preceding forward or backward call when the layer is
\* stateful and zero otherwise, and the rows a non-stateful layer returns
\* for a batch are those a layer with a cleared carry returns for it.
C12_CarryOnlyWhenStateful ==
    /\ [][nA' = nA + 1 =>
            /\ lstmA'.h[-1] = IF lstmA.stateful = 1 THEN lstmA.ph
                              ELSE ZeroVec(lstmA.S)
            /\ lstmA'.c[-1] = IF lstmA.stateful = 1 THEN lstmA.pc
                              ELSE ZeroVec(lstmA.S)]_vars
    /\ [](nA > 0 => /\ lstmA.ph = lstmA.h[lstmA.B - 1]
                    /\ lstmA.pc = lstmA.c[lstmA.B - 1])
    /\ []((nA = 2 /\ lstmA.stateful = 0) =>
            SubSeq(hA, lstmA.B + 1, 2 * lstmA.B)
              = Hidden(LstmForward(LstmReset(lstmA),
                                   Rows2D(lstmA.B, lstmA.B))))

\* A non-stateful layer was fed the second half after a forward and a
\* backward pass on the first half that left a carry other than zero.
C12_Witness ==
    /\ lstmA.stateful = 0 /\ nA = 2
    /\ hA[lstmA.B] # ZeroVec(Units)
    /\ lstmA.ph # ZeroVec(Units)
    /\ bwdA = 1

\* ------------------------------------------------ the model in use
\* A program that builds a model (model_create, model_add, model_compile)
\* and trains it with model_fit, once or more, on one dataset that serves
\* as training and, when asked for, as validation data.  The layers are
\* dense layers without activation and sigmoid LSTM layers.  model_fit is
\* called with learning_rate 0 and weight_decay 0 and the linear
\* optimizer, which leave the weights as they are; the values of the
\* gradients are not followed.
FitWeights == {wgt \in Weights : wgt.W = 1 /\ wgt.U = 1}

\* The carry (ph, pc) of every stateful LSTM layer of the model.
Carry(mm) ==
    [i \in 0..mm.num_layers-1 |->
        IF mm.layer[i].type = "l" /\ mm.layer[i].net.stateful = 1
        THEN [ph |-> mm.layer[i].net.ph, pc |-> mm.layer[i].net.pc]
        ELSE NULL]

\* The same with every carry vector cleared.
ZeroCarry(mm) ==
    [i \in 0..mm.num_layers-1 |->
        IF mm.layer[i].type = "l" /\ mm.layer[i].net.stateful = 1
        THEN [ph |-> ZeroVec(mm.layer[i].net.S),
              pc |-> ZeroVec(mm.layer[i].net.S)]
        ELSE NULL]

\* numTr: the number of sequences, or of rows when no lengths are passed.
NumTr == IF lenArg # NULL THEN Cardinality(DOMAIN lenArg) ELSE fit.numTr

ModelInit ==
    /\ lrng_seed = InitLrng(42)
    /\ \E len \in LenArrays \cup {NULL}, n \in 1..MaxSeqs*MaxSeqLen :
          /\ len # NULL => n = 1
          /\ lenArg = len
          /\ fit = [numTr |-> n, epoch |-> 0, num_epochs |-> 0, final |-> 0]
    /\ bat = NULL /\ bVd = NULL /\ xbuf = NULL /\ ybuf = NULL
    /\ ret = -1 /\ lastIdx = << >> /\ yielded = << >> /\ zeroAt = -1
    /\ nshuf = 0 /\ past = Unread /\ overrun = FALSE
    /\ mdl = NULL /\ pc = "start"
    /\ fwdLog = << >> /\ nfit = 0 /\ bwdFinal = FALSE
    /\ predLen = -1 /\ yout = << >> /\ npred = 0
    /\ LstmUnused
    /\ AuxUnused

\* m = model_create(num_layers, batch_size, input_dim, 1, 0)
CallModelCreate ==
    /\ pc = "start"
    /\ \E L \in 1..MaxLayers, B \in 1..MaxB :
          mdl' = ModelCreate(L, B, Dim, 1, 0)
    /\ pc' = "add"
    /\ UNCHANGED <<fit, bVd, fwdLog, nfit, bwdFinal>>
    /\ UNCHANGED <<batchVars, lstmVars, auxVars>>
    /\ UNCHANGED predVars

\* model_add(m, dense_create(..) or lstm_create(..), type)
CallModelAdd ==
    /\ pc = "add"
    /\ \E type \in {"dense", "lstm", "conv"}, st \in 0..1 :
          /\ type # "lstm" => st = 0
          /\ LET layer == IF type = "lstm" THEN LstmCreate(Units, "s", st)
                          ELSE DenseCreate(Units, "n")
                 r == ModelAdd(mdl, layer, type)
             IN  /\ mdl' = r.m
                 /\ pc' = IF r.exit THEN "exited" ELSE "add"
    /\ UNCHANGED <<fit, bVd, fwdLog, nfit, bwdFinal>>
    /\ UNCHANGED <<batchVars, lstmVars, auxVars>>
    /\ UNCHANGED predVars

\* model_compile(m, loss_func, "linear")
CallModelCompile ==
    /\ pc = "add"
    /\ \E loss_func \in {"mean-square-error", "mse"}, wgt \in FitWeights :
          LET r == ModelCompile(mdl, loss_func, "linear", wgt)
          IN  /\ mdl' = r.m
              /\ pc' = IF r.exit THEN "exited" ELSE "ready"
    /\ UNCHANGED <<fit, bVd, fwdLog, nfit, bwdFinal>>
    /\ UNCHANGED <<batchVars, lstmVars, auxVars>>
    /\ UNCHANGED predVars

\* model_fit is entered: lines 349-421, up to the epoch loop.  The model
\* follows the call on a model whose every slot holds a layer.
FitBegin ==
    /\ pc = "ready"
    /\ nfit < MaxFits
    /\ \A i \in 0..mdl.num_layers-1 : mdl.layer[i].type # ""
    /\ \E num_epochs \in 1..MaxEpochs, final \in 0..1, hasVd \in BOOLEAN :
          LET B  == mdl.batch_size
              N  == mdl.output_dim
              Db == mdl.input_dim + mdl.add_bias
              MVd == IF hasVd THEN Total(lenArg, NumTr) ELSE 0
          IN  /\ fit' = [fit EXCEPT !.epoch = 0, !.num_epochs = num_epochs,
                                    !.final = final]
              /\ bat' = BatchCreate(mdl.input_dim, TRUE, N, B, lenArg, NumTr,
                                    1, mdl.add_bias)
              /\ bVd' = IF MVd > 0
                        THEN BatchCreate(mdl.input_dim, TRUE, N, B, lenArg,
                                         NumTr, 0, mdl.add_bias)
                        ELSE NULL
              /\ xbuf' = [k \in 0..B-1 |-> [j \in 0..Db-1 |-> 0]]
              /\ ybuf' = [k \in 0..B-1 |-> [j \in 0..N-1 |-> 0]]
    /\ pc' = "epoch"
    /\ nfit' = nfit + 1
    /\ fwdLog' = << >>
    /\ UNCHANGED <<mdl, bwdFinal>>
    /\ UNCHANGED <<lrng_seed, lenArg, ret, lastIdx, yielded, zeroAt, nshuf,
                   past, overrun>>
    /\ UNCHANGED <<lstmVars, auxVars>>
    /\ UNCHANGED predVars

\* The head of an epoch: batch_shuffle(bTr); reset_state(m)
EpochBegin ==
    /\ pc = "epoch"
    /\ fit.epoch < fit.num_epochs
    /\ \E r \in ShuffleOutcomes(bat, lrng_seed, past) :
          /\ bat' = r.b
          /\ lrng_seed' = r.seed
          /\ overrun' = (overrun \/ r.over)
          /\ past' = r.past
    /\ mdl' = ResetState(mdl)
    /\ pc' = "train"
    /\ fwdLog' = << >>
    /\ UNCHANGED <<fit, bVd, nfit, bwdFinal>>
    /\ UNCHANGED <<lenArg, xbuf, ybuf, ret, lastIdx, yielded, zeroAt, nshuf>>
    /\ UNCHANGED <<lstmVars, auxVars>>
    /\ UNCHANGED predVars

\* The entry of fwdLog for a forward pass on the batch that batch_copy
\* took from the iterator b and returned cnt rows of: whether the batch
\* is the first of a sequence, and the carry before and after the pass.
Forwarded(pass, b, cnt, before, after) ==
    [ pass  |-> pass,
      first |-> b.shufSeq # NULL /\ b.curVec = 0,
      cnt   |-> cnt,
      inn   |-> Carry(before),
      out   |-> Carry(after) ]

\* One iteration of the training loop that finds a batch (lines 434-474):
\* batch_copy, model_batch_forward, the loss, model_batch_backward,
\* model_update, and reset_state when the batch was short.  When a layer
\* has no gradient arrays the backward pass reads address 0 and the
\* process is stopped by the signal.
TrainBatch ==
    /\ pc = "train"
    /\ LET r  == BatchCopy(bat, xbuf, ybuf)
           m1 == ModelBatchForward(mdl, r.x)
           m2 == [m1 EXCEPT !.update_cnt = @ + 1]
       IN  /\ r.cnt > 0
           /\ bat' = r.b /\ xbuf' = r.x /\ ybuf' = r.y /\ ret' = r.cnt
           /\ fwdLog' = Append(fwdLog,
                               Forwarded("train", bat, r.cnt, mdl, m1))
           /\ bwdFinal' = (bwdFinal \/ mdl.final = 1)
           /\ IF BackwardReadsNull(m1)
              THEN /\ mdl' = m1
                   /\ pc' = "crashed"
              ELSE /\ mdl' = IF r.cnt < mdl.batch_size THEN ResetState(m2)
                             ELSE m2
                   /\ pc' = "train"
    /\ UNCHANGED <<fit, bVd, nfit>>
    /\ UNCHANGED <<lrng_seed, lenArg, lastIdx, yielded, zeroAt, nshuf, past,
                   overrun>>
    /\ UNCHANGED <<lstmVars, auxVars>>
    /\ UNCHANGED predVars

\* The iteration of the training loop in which batch_copy returns 0, and
\* what follows it (lines 476-494): with validation data,
\* batch_shuffle(bVd) and reset_state(m); without, the end of the epoch.
TrainEnd ==
    /\ pc = "train"
    /\ LET r == BatchCopy(bat, xbuf, ybuf)
       IN  /\ r.cnt = 0
           /\ bat' = r.b /\ xbuf' = r.x /\ ybuf' = r.y /\ ret' = r.cnt
    /\ IF bVd # NULL
       THEN /\ bVd' = BatchShuffle(bVd, lrng_seed, past).b
            /\ mdl' = ResetState(mdl)
            /\ pc' = "valid"
            /\ fit' = fit
       ELSE /\ fit' = [fit EXCEPT !.epoch = @ + 1]
            /\ pc' = "epoch"
            /\ UNCHANGED <<bVd, mdl>>
    /\ fwdLog' = << >>
    /\ UNCHANGED <<nfit, bwdFinal>>
    /\ UNCHANGED <<lrng_seed, lenArg, lastIdx, yielded, zeroAt, nshuf, past,
                   overrun>>
    /\ UNCHANGED <<lstmVars, auxVars>>
    /\ UNCHANGED predVars

\* One iteration of the validation loop that finds a batch (lines
\* 496-526): batch_copy, model_batch_forward, the loss, reset_state(m).
ValidBatch ==
    /\ pc = "valid"
    /\ LET r  == BatchCopy(bVd, xbuf, ybuf)
           m1 == ModelBatchForward(mdl, r.x)
       IN  /\ r.cnt > 0
           /\ bVd' = r.b /\ xbuf' = r.x /\ ybuf' = r.y /\ ret' = r.cnt
           /\ fwdLog' = Append(fwdLog,
                               Forwarded("valid", bVd, r.cnt, mdl, m1))
           /\ mdl' = ResetState(m1)
    /\ UNCHANGED <<pc, fit, nfit, bwdFinal>>
    /\ UNCHANGED <<lrng_seed, lenArg, bat, lastIdx, yielded, zeroAt, nshuf,
                   past, overrun>>
    /\ UNCHANGED <<lstmVars, auxVars>>
    /\ UNCHANGED predVars

\* The iteration of the validation loop in which batch_copy returns 0,
\* and the end of the epoch.
ValidEnd ==
    /\ pc = "valid"
    /\ LET r == BatchCopy(bVd, xbuf, ybuf)
       IN  /\ r.cnt = 0
           /\ bVd' = r.b /\ xbuf' = r.x /\ ybuf' = r.y /\ ret' = r.cnt
    /\ fit' = [fit EXCEPT !.epoch = @ + 1]
    /\ pc' = "epoch"
    /\ fwdLog' = << >>
    /\ UNCHANGED <<mdl, nfit, bwdFinal>>
    /\ UNCHANGED <<lrng_seed, lenArg, bat, lastIdx, yielded, zeroAt, nshuf,
                   past, overrun>>
    /\ UNCHANGED <<lstmVars, auxVars>>
    /\ UNCHANGED predVars

\* After the last epoch (lines 544-565): the buffers and iterators are
\* freed and, with final set, the model is finalized.  model_fit returns.
FitEnd ==
    /\ pc = "epoch"
    /\ fit.epoch >= fit.num_epochs
    /\ mdl' = Finalize(mdl, fit.final)
    /\ bat' = NULL /\ bVd' = NULL /\ xbuf' = NULL /\ ybuf' = NULL
    /\ ret' = -1
    /\ pc' = "ready"
    /\ UNCHANGED <<fit, fwdLog, nfit, bwdFinal>>
    /\ UNCHANGED <<lrng_seed, lenArg, lastIdx, yielded, zeroAt, nshuf, past,
                   overrun>>
    /\ UNCHANGED <<lstmVars, auxVars>>
    /\ UNCHANGED predVars

\* model_predict(m, x, y, len) on a compiled model whose every slot holds
\* a layer, x being the first len rows of the dataset.
CallModelPredict ==
    /\ pc = "ready"
    /\ npred < MaxPredicts
    /\ \A i \in 0..mdl.num_layers-1 : mdl.layer[i].type # ""
    /\ \E len \in 0..MaxPredLen :
          LET r == ModelPredict(mdl, len)
          IN  /\ mdl' = r.m
              /\ yout' = r.y
              /\ predLen' = len
    /\ npred' = npred + 1
    /\ UNCHANGED <<pc, fit, bVd, fwdLog, nfit, bwdFinal>>
    /\ UNCHANGED <<batchVars, lstmVars, auxVars>>

ModelNext ==
    \/ CallModelCreate \/ CallModelAdd \/ CallModelCompile
    \/ FitBegin \/ EpochBegin \/ TrainBatch \/ TrainEnd
    \/ ValidBatch \/ ValidEnd \/ FitEnd \/ CallModelPredict

SpecModel == ModelInit /\ [][ModelNext]_vars

\* -------------------------------------------------- claims on the model
\* C1: during model_fit on sequence-grouped data, whenever the first batch
\* of a sequence is forwarded the carry (ph, pc) of every stateful LSTM
\* layer is all zero.
C1_CarryZeroAtSequenceStart ==
    \A k \in 1..Len(fwdLog) :
        fwdLog[k].first => fwdLog[k].inn = ZeroCarry(mdl)

\* The carry a pass that resets the state at its start and after a short
\* batch, and nowhere else, presents to its k-th forward pass.
Threaded(k) ==
    IF k = 1 \/ fwdLog[k - 1].cnt < mdl.batch_size THEN ZeroCarry(mdl)
    ELSE fwdLog[k - 1].out

\* The training pass presents that carry to every batch.
TrainingThreadsCarry ==
    \A k \in 1..Len(fwdLog) :
        fwdLog[k].pass = "train" => fwdLog[k].inn = Threaded(k)

\* C10: the carry entering each batch of the validation pass is the one
\* the training pass presents at that batch position: zero at the start of
\* the pass and after a short batch, the carry the previous batch left
\* otherwise.
C10_ValidationCarriesLikeTraining ==
    \A k \in 1..Len(fwdLog) :
        fwdLog[k].pass = "valid" => fwdLog[k].inn = Threaded(k)

\* C5: once model_fit has finalized the model (m->final = 1) every layer's
\* gradient arrays are freed (grads NULL, num_grads 0), and no later
\* model_fit runs a backward pass on it or reads the freed arrays.
C5_FinalizedModelNotTrained ==
    /\ ~bwdFinal
    /\ pc # "crashed"
    /\ (pc # "start" /\ mdl.final = 1) =>
          \A i \in 0..mdl.num_layers-1 :
              mdl.layer[i].grads = NULL /\ mdl.layer[i].num_grads = 0

\* C6: model_compile never returns on a model with fewer layers added
\* than num_layers: no compiled model holds an empty layer slot.
C6_LayerCountMismatchFatal ==
    pc = "ready" => \A i \in 0..mdl.num_layers-1 : mdl.layer[i].type # ""

\* What training owns of a model: every layer's weight matrices and
\* gradient arrays, and the update counter.
Params(mm) ==
    [ update_cnt |-> mm.update_cnt,
      layer |-> [i \in 0..mm.num_layers-1 |->
          LET l == mm.layer[i]
          IN  [ grads |-> l.grads, num_grads |-> l.num_grads,
                W |-> IF l.type = "d" THEN <<l.net.Wx>>
                      ELSE IF l.type = "l"
                      THEN <<l.net.Wf, l.net.Wi, l.net.Wc, l.net.Wo,
                             l.net.Uf, l.net.Ui, l.net.Uc, l.net.Uo>>
                      ELSE << >> ]] ]

\* Row k of the dataset as a layer input, the bias column appended.
InputRow(mm, k) ==
    [j \in 0..mm.input_dim+mm.add_bias-1 |->
        IF j < mm.input_dim THEN Xs(k, j) ELSE 1]

\* What a stack of dense layers makes of one input vector, from layer j on.
RECURSIVE DenseStack(_, _, _)
DenseStack(mm, v, j) ==
    IF j >= mm.num_layers THEN v
    ELSE LET l == mm.layer[j].net
         IN  DenseStack(mm, Activate(AddVecMatMul(ZeroVec(l.S), v, l.Wx,
                                                  l.D, l.S), l.activation),
                        j + 1)

\* C11: the validation pass of model_fit and every model_predict call leave
\* every layer's weights and gradient arrays and the update counter as
\* they were; model_predict writes exactly len rows of N values, and for a
\* model of dense layers row k is what the layers make of input row k.
C11_ForwardOnly ==
    /\ [][(pc = "valid" \/ npred' # npred) => Params(mdl') = Params(mdl)]_vars
    /\ [](npred > 0 =>
            /\ Len(yout) = predLen
            /\ \A k \in 1..Len(yout) : DOMAIN yout[k] = 0..mdl.output_dim-1
            /\ (\A i \in 0..mdl.num_layers-1 : mdl.layer[i].type = "d") =>
                  \A k \in 1..Len(yout) :
                      yout[k] = DenseStack(mdl, InputRow(mdl, k - 1), 0))

\* A trained model of dense layers predicted more rows than one batch
\* holds, the last batch short, and is inside a validation pass.
C11_Witness ==
    /\ npred > 0 /\ predLen > mdl.batch_size
    /\ predLen % mdl.batch_size # 0
    /\ \A i \in 0..mdl.num_layers-1 : mdl.layer[i].type = "d"
    /\ mdl.update_cnt > 0
    /\ pc = "valid" /\ Len(fwdLog) > 0

\* ------------------------------------------------ the optimizer in use
\* The values of a gradient element, the bounds handed to clip_gradients
\* and the values of a second-moment element.
GradValues ==
    {FNaN, FZero} \cup {FPow(sg, e) : sg \in {-1, 1}, e \in {-13, -12, 0, 1, 2}}

ClipBounds == {FPow(1, e) : e \in {-12, 0, 1}}

MomentValues == {FNaN, FZero, FPow(1, -3), FPow(-1, -3)}

\* The shapes [M][N] of the arrays.
Shapes == {sh \in (1..MaxElems) \X (1..MaxElems) : sh[1] * sh[2] <= MaxElems}

Arrays(sh, V) == [0..sh[1]-1 -> [0..sh[2]-1 -> V]]

OptOthers ==
    <<batchVars, lstmVars, modelVars, schedVars, embVars, ctcVars, twinVars,
      readVars, resizeVars,
      hashVars,
      gradVars,
      updVars,
      setbVars>>

OptInit ==
    /\ optPc = "idle" /\ gmin = NULL /\ gmax = NULL /\ ga0 = NULL /\ ga = NULL
    /\ va0 = NULL /\ va = NULL /\ wcnt = NULL
    /\ BatchUnused /\ LstmUnused /\ ModelUnused
    /\ SetbUnused
    /\ UpdUnused
    /\ GradUnused
    /\ HashUnused
    /\ SchedUnused /\ EmbUnused /\ CtcUnused /\ TwinUnused
    /\ ReadUnused /\ ResizeUnused

\* clip_gradients(ga, M, N, gmin, gmax) with 0 < gmin <= gmax.  Every call
\* brings its own arrays, so one call is followed per behaviour.
CallClipGradients ==
    /\ optPc = "idle"
    /\ \E sh \in Shapes, lo \in ClipBounds, hi \in ClipBounds :
          /\ ~FGt(lo, hi)
          /\ \E arr \in Arrays(sh, GradValues) :
                /\ ga0' = arr
                /\ ga' = ClipGradients(arr, sh[1], sh[2], lo, hi)
          /\ gmin' = lo /\ gmax' = hi
    /\ optPc' = "clipped"
    /\ va0' = NULL /\ va' = NULL /\ wcnt' = NULL
    /\ UNCHANGED OptOthers

\* adamw_update(w, g, m, v, M, N, learning_rate, weight_decay, update_step)
CallAdamwUpdate ==
    /\ optPc = "idle"
    /\ \E sh \in Shapes :
          \E g \in Arrays(sh, {FNaN, FZero, FPow(1, -13), FPow(-1, 2)}),
             v \in Arrays(sh, MomentValues) :
              LET r == AdamwUpdate(g, v, sh[1], sh[2])
              IN  /\ ga0' = g /\ ga' = r.g
                  /\ va0' = v /\ va' = r.v
                  /\ wcnt' = r.cnt
                  /\ optPc' = IF r.exit THEN "exited" ELSE "updated"
    /\ gmin' = AdamwGmin /\ gmax' = AdamwGmax
    /\ UNCHANGED OptOthers

OptNext == CallClipGradients \/ CallAdamwUpdate

SpecOpt == OptInit /\ [][OptNext]_vars

\* C13: after clip_gradients every element's absolute value lies in
\* [gmin, gmax] and its sign is the sign of the element before the call,
\* whatever that element was.
C13_ClippedIntoRange ==
    optPc = "clipped" =>
        \A i \in DOMAIN ga : \A j \in DOMAIN ga[i] :
            /\ ~ga[i][j].nan
            /\ ~FLt(FAbs(ga[i][j]), gmin) /\ ~FGt(FAbs(ga[i][j]), gmax)
            /\ ga[i][j].sgn = ga0[i][j].sgn

\* C14: adamw_update applies no update to an element whose second moment is
\* negative on entry: the call ends in exit(-1), with that element and
\* every later one as they were.
C14_NegativeMomentFatal ==
    (optPc \in {"updated", "exited"}) =>
        /\ \A i \in DOMAIN va0 : \A j \in DOMAIN va0[i] :
              FLt(va0[i][j], FZero) =>
                  /\ wcnt[i][j] = 0
                  /\ va[i][j] = va0[i][j]
                  /\ optPc = "exited"
        /\ optPc = "exited" =>
              \E i \in DOMAIN va0 : \E j \in DOMAIN va0[i] :
                  FLt(va0[i][j], FZero)

\* adamw_update met a negative second moment after it had updated an
\* element before it.
C14_Witness ==
    /\ optPc = "exited"
    /\ \E i \in DOMAIN wcnt : \E j \in DOMAIN wcnt[i] : wcnt[i][j] = 1

\* ------------------------------------------------ the schedule in use
\* model_fit run with kwargs "schedule=e1:lr1:wd1,e2:lr2:wd2,...": the
\* segments a caller may write, and the text of a schedule (with or
\* without a comma after the last segment).
Segments == [e : 0..MaxSegEpochs, lr : 1..MaxRate, wd : 0..MaxRate - 1]

Schedules == UNION {[1..n -> Segments] : n \in 1..MaxSegs}

RECURSIVE ScheduleText(_, _)
ScheduleText(sg, n) ==
    IF n = 0 THEN << >>
    ELSE ScheduleText(sg, n - 1) \o (IF n > 1 THEN <<",">> ELSE << >>)
         \o Decimal(sg[n].e) \o <<":">> \o Decimal(sg[n].lr)
         \o <<":">> \o Decimal(sg[n].wd)

SchedOthers ==
    <<batchVars, lstmVars, modelVars, optVars, embVars, ctcVars, twinVars,
      readVars, resizeVars,
      hashVars,
      gradVars,
      updVars,
      setbVars>>

SchedInit ==
    /\ \E sg \in Schedules, comma \in BOOLEAN :
          /\ segs = sg
          /\ sch = ScheduleText(sg, Len(sg))
                   \o (IF comma THEN <<",">> ELSE << >>)
    /\ schEpoch = 0
    /\ learning_rate = 0 /\ weight_decay = 0
    /\ schLog = << >>
    /\ BatchUnused /\ LstmUnused /\ ModelUnused
    /\ SetbUnused
    /\ UpdUnused
    /\ GradUnused
    /\ HashUnused
    /\ OptUnused /\ EmbUnused /\ CtcUnused /\ TwinUnused
    /\ ReadUnused /\ ResizeUnused

\* The head of an epoch of model_fit:
\*     if (sch != NULL) get_epoch_params(sch, epoch, &learning_rate, &weight_decay)
\* and the epoch run with those values.
EpochParams ==
    /\ schEpoch < MaxSegs * MaxSegEpochs + 1
    /\ LET r == GetEpochParams(sch, schEpoch, learning_rate, weight_decay)
       IN  /\ learning_rate' = r.lr
           /\ weight_decay' = r.wd
           /\ schLog' = Append(schLog, r)
    /\ schEpoch' = schEpoch + 1
    /\ UNCHANGED <<sch, segs>>
    /\ UNCHANGED SchedOthers

SchedNext == EpochParams

SpecSched == SchedInit /\ [][SchedNext]_vars

\* e1 + ... + ei
RECURSIVE EpochsThrough(_, _)
EpochsThrough(sg, i) == IF i = 0 THEN 0 ELSE EpochsThrough(sg, i - 1) + sg[i].e

\* The segment in force in 0-based epoch k: the first segment i with
\* k < e1 + ... + ei, the last segment when there is none.
SegmentOf(sg, k) ==
    LET I == {i \in 1..Len(sg) : k < EpochsThrough(sg, i)}
    IN  IF I = {} THEN Len(sg) ELSE CHOOSE i \in I : \A j \in I : i <= j

\* C15: in 0-based epoch k model_fit uses the learning rate and weight
\* decay of the first segment i with k < e1 + ... + ei, and those of the
\* last segment in the epochs past the end of the schedule.
C15_ScheduleSegments ==
    \A k \in 1..Len(schLog) :
        /\ schLog[k].lr = segs[SegmentOf(segs, k - 1)].lr
        /\ schLog[k].wd = segs[SegmentOf(segs, k - 1)].wd

\* A schedule of two segments with different rates, the first of which
\* lasts more than one epoch, has run past its end.
C15_Witness ==
    /\ Len(segs) = 2 /\ segs[1].e = 2 /\ segs[2].e = 1
    /\ segs[1].lr # segs[2].lr
    /\ Len(schLog) > 3

\* ------------------------------------------------ the embedding layer
EmbWeights == {1, 2}

EmbOthers ==
    <<batchVars, lstmVars, modelVars, optVars, schedVars, ctcVars, twinVars,
      readVars, resizeVars,
      hashVars,
      gradVars,
      updVars,
      setbVars>>

EmbInit ==
    /\ \E E \in 1..MaxEmbDim, M \in 1..MaxContext, pad \in -1..MaxVocab - 1,
          B \in 1..MaxEmbBatch :
        \E wx \in [0..MaxVocab * E - 1 -> EmbWeights] :
            emb = EmbeddingInit(E, M, pad, MaxVocab, B, wx)
    /\ embX = NULL
    /\ embPc = "idle"
    /\ BatchUnused /\ LstmUnused /\ ModelUnused
    /\ SetbUnused
    /\ UpdUnused
    /\ GradUnused
    /\ HashUnused
    /\ OptUnused /\ SchedUnused /\ CtcUnused /\ TwinUnused
    /\ ReadUnused /\ ResizeUnused

\* embedding_forward on a batch of contexts of token indices.
CallEmbeddingForward ==
    /\ embPc = "idle"
    /\ \E X \in [0..emb.B * emb.M - 1 -> 0..emb.D - 1] :
          /\ embX' = X
          /\ emb' = EmbeddingForward(emb, X)
    /\ embPc' \in IF EmbeddingOverrun(emb) THEN {"done", "crashed"}
                  ELSE {"done"}
    /\ UNCHANGED EmbOthers

EmbNext == CallEmbeddingForward

SpecEmb == EmbInit /\ [][EmbNext]_vars

\* Positions of the context of sample i that do not hold the pad index.
NonPad(i) == {j \in 0..emb.M - 1 : embX[i * emb.M + j] # emb.padinx}

RECURSIVE SumRows(_, _, _)
SumRows(i, k, J) ==
    IF J = {} THEN 0
    ELSE LET j == CHOOSE x \in J : TRUE
         IN  emb.Wx[embX[i * emb.M + j] * emb.E + k] + SumRows(i, k, J \ {j})

\* C16: after embedding_forward, for every sample i and every component
\* k < E, output[i][k] is the sum of Wx[X[i][j]][k] over the context
\* positions j whose token is not the pad index.
C16_SumOfEmbeddingRows ==
    embPc = "done" =>
        \A i \in 0..emb.B - 1 : \A k \in 0..emb.E - 1 :
            emb.h[i * emb.S + k] = SumRows(i, k, NonPad(i))

\* ------------------------------------------------------ the CTC accuracy
\* Prediction rows, as probabilities in units of 1/6: the one-hot rows and
\* two rows that give every class a probability.  Label rows: the one-hot
\* rows.
OneHotRows == {[j \in 0..CtcL - 1 |-> IF j = k THEN 1 ELSE 0] : k \in 0..CtcL - 1}

PredRows ==
    OneHotRows \cup {[j \in 0..CtcL - 1 |-> j + 1],
                     [j \in 0..CtcL - 1 |-> IF j = 0 THEN 4 ELSE 1]}

CtcOthers ==
    <<batchVars, lstmVars, modelVars, optVars, schedVars, embVars, twinVars,
      readVars, resizeVars,
      hashVars,
      gradVars,
      updVars,
      setbVars>>

CtcInit ==
    /\ \E blank \in 0..CtcL - 1 : ctc = CtcCreate(MaxT, CtcL, blank)
    /\ ctcPc = "created"
    /\ lossArgs = NULL
    /\ accT = 0 /\ acc = NULL
    /\ BatchUnused /\ LstmUnused /\ ModelUnused
    /\ SetbUnused
    /\ UpdUnused
    /\ GradUnused
    /\ HashUnused
    /\ OptUnused /\ SchedUnused /\ EmbUnused /\ TwinUnused
    /\ ReadUnused /\ ResizeUnused

CallCtcLoss ==
    /\ ctcPc = "created"
    /\ \E T \in 0..MaxT :
          \E yp \in [0..T - 1 -> PredRows], yt \in [0..T - 1 -> OneHotRows] :
              /\ ctc' = CtcLoss(ctc, yp, yt, T, CtcL)
              /\ lossArgs' = [T |-> T, yp |-> yp, yt |-> yt]
    /\ ctcPc' = "lost"
    /\ UNCHANGED <<accT, acc>>
    /\ UNCHANGED CtcOthers

CallCtcAccuracy ==
    /\ ctcPc \in {"created", "lost"}
    /\ \E T \in 0..MaxT :
          /\ accT' = T
          /\ acc' = CtcAccuracy(ctc, T)
    /\ ctcPc' = "scored"
    /\ UNCHANGED <<ctc, lossArgs>>
    /\ UNCHANGED CtcOthers

CtcNext == CallCtcLoss \/ CallCtcAccuracy

SpecCtc == CtcInit /\ [][CtcNext]_vars

\* The stored label sequences, as sequences.
Decoded(yc, len) == [i \in 1..len |-> yc[i - 1]]

\* The Levenshtein distance of two sequences, by its recursive definition.
RECURSIVE Levenshtein(_, _)
Levenshtein(a, b) ==
    IF Len(a) = 0 THEN Len(b)
    ELSE IF Len(b) = 0 THEN Len(a)
    ELSE IF Head(a) = Head(b) THEN Levenshtein(Tail(a), Tail(b))
    ELSE 1 + Minimum(Levenshtein(Tail(a), b), Levenshtein(a, Tail(b)),
                     Levenshtein(Tail(a), Tail(b)))

\* C17: ctc_accuracy returns T * (1 - editDistance / max(len)) of the
\* decoded predicted and true sequences stored by ctc_loss; the value is
\* between 0 and T, and it is T when the two sequences are equal, both
\* empty included.
C17_AccuracyFromEditDistance ==
    ctcPc = "scored" =>
        LET p  == Decoded(ctc.ypc, ctc.ypclen)
            t  == Decoded(ctc.ytc, ctc.ytclen)
            mx == IF Len(p) > Len(t) THEN Len(p) ELSE Len(t)
        IN  /\ mx > 0 => acc.num * mx = accT * (mx - Levenshtein(p, t)) * acc.den
            /\ acc.den > 0
            /\ 0 <= acc.num /\ acc.num <= accT * acc.den
            /\ p = t => acc.num = accT * acc.den

\* ctc_accuracy has scored two stored sequences of different lengths that
\* share a label: the distance is neither 0 nor the larger length.
C17_Witness ==
    /\ ctcPc = "scored" /\ accT = MaxT
    /\ ctc.ypclen = 2 /\ ctc.ytclen = 3
    /\ 0 < acc.num /\ acc.num < accT * acc.den

\* ------------------------------------------- two runs with the same seed
\* A run: init_lrng(seed), batch_create on the dataset, then operations.
\* draws are the values lrng() has returned to the program itself.
RunStart(seed, len, n, B, shuffle) ==
    LET num == IF len # NULL THEN Cardinality(DOMAIN len) ELSE n
    IN  [seed |-> InitLrng(seed),
         bat |-> BatchCreate(Dim, TRUE, 1, B, len, num, shuffle, 0),
         xbuf |-> [k \in 0..B-1 |-> [j \in 0..Dim-1 |-> 0]],
         ybuf |-> [k \in 0..B-1 |-> [j \in 0..0 |-> 0]],
         ret |-> -1, past |-> Unread, nshuf |-> 0, draws |-> << >>]

\* batch_shuffle(b) in a run: every outcome the run may see.
RunShuffle(r) ==
    {[r EXCEPT !.bat = o.b, !.seed = o.seed, !.past = o.past, !.ret = -1,
               !.nshuf = 1]
        : o \in ShuffleOutcomes(r.bat, r.seed, r.past)}

\* batch_copy(b, x, y) in a run.
RunCopy(r) ==
    LET c == BatchCopy(r.bat, r.xbuf, r.ybuf)
    IN  [r EXCEPT !.bat = c.b, !.xbuf = c.x, !.ybuf = c.y, !.ret = c.cnt]

\* lrng() in a run.
RunDraw(r) ==
    [r EXCEPT !.seed = LrngNext(r.seed),
              !.draws = Append(r.draws, LrngFloat(LrngNext(r.seed)))]

TwinOthers ==
    <<batchVars, lstmVars, modelVars, optVars, schedVars, embVars, ctcVars,
      readVars, resizeVars,
      hashVars,
      gradVars,
      updVars,
      setbVars>>

TwinInit ==
    /\ \E seed \in Seeds, len \in LenArrays \cup {NULL},
          n \in 1..MaxSeqs*MaxSeqLen, B \in 1..MaxB, shuffle \in 0..1 :
          /\ len # NULL => n = 1
          /\ runA = RunStart(seed, len, n, B, shuffle)
          /\ runB = RunStart(seed, len, n, B, shuffle)
    /\ twinOps = 0
    /\ BatchUnused /\ LstmUnused /\ ModelUnused
    /\ SetbUnused
    /\ UpdUnused
    /\ GradUnused
    /\ HashUnused
    /\ OptUnused /\ SchedUnused /\ EmbUnused /\ CtcUnused
    /\ ReadUnused /\ ResizeUnused

\* Both runs call batch_shuffle.
TwinShuffle ==
    /\ twinOps < MaxTwinOps
    /\ runA.nshuf = 0 \/ runA.ret = 0
    /\ runB.nshuf = 0 \/ runB.ret = 0
    /\ runA' \in RunShuffle(runA)
    /\ runB' \in RunShuffle(runB)
    /\ twinOps' = twinOps + 1
    /\ UNCHANGED TwinOthers

\* Both runs call batch_copy.
TwinCopy ==
    /\ twinOps < MaxTwinOps
    /\ runA.nshuf > 0 /\ runB.nshuf > 0
    /\ runA' = RunCopy(runA)
    /\ runB' = RunCopy(runB)
    /\ twinOps' = twinOps + 1
    /\ UNCHANGED TwinOthers

\* Both runs draw a value from the generator.
TwinDraw ==
    /\ twinOps < MaxTwinOps
    /\ runA' = RunDraw(runA)
    /\ runB' = RunDraw(runB)
    /\ twinOps' = twinOps + 1
    /\ UNCHANGED TwinOthers

TwinNext == TwinShuffle \/ TwinCopy \/ TwinDraw

SpecTwin == TwinInit /\ [][TwinNext]_vars

\* C18: two runs seeded alike that perform the same operations on the
\* same inputs have the same generator values, the same shuffle order
\* after every batch_shuffle and the same batch contents after every
\* batch_copy.
C18_SameSeedSameResults ==
    /\ runA.seed = runB.seed /\ runA.draws = runB.draws
    /\ runA.bat = runB.bat
    /\ runA.xbuf = runB.xbuf /\ runA.ybuf = runB.ybuf /\ runA.ret = runB.ret

\* --------------------------------------------------- reading a model file
\* A file is a written model (layers, gradient arrays, loss, normalisation)
\* and the place where it is truncated or invalid: the model header after
\* cnt fields, the mean/sdev data, the CTC header, or for layer i its
\* header after cnt fields, its type code, its network header, its
\* weights, or its gradient data.
NoFault == [at |-> "none", i |-> -1, cnt |-> 0]

Faults(nl, ng, loss, normalize) ==
    {NoFault}
    \cup {[at |-> "header", i |-> -1, cnt |-> c] : c \in 0..1}
    \cup (IF normalize = 1 THEN {[at |-> "mean", i |-> -1, cnt |-> 0]} ELSE {})
    \cup (IF loss = "C" THEN {[at |-> "ctc", i |-> -1, cnt |-> 0]} ELSE {})
    \cup {[at |-> "layer", i |-> i, cnt |-> c] : i \in 0..nl - 1, c \in 0..1}
    \cup {[at |-> a, i |-> i, cnt |-> 0] :
              a \in {"type", "net", "weights"}, i \in 0..nl - 1}
    \cup {[at |-> "grads", i |-> i, cnt |-> 0] : i \in {k \in 0..nl - 1 : ng[k] > 0}}

ReadOthers ==
    <<batchVars, lstmVars, modelVars, optVars, schedVars, embVars, ctcVars,
      twinVars, resizeVars,
      hashVars,
      gradVars,
      updVars,
      setbVars>>

ReadInit ==
    /\ \E nl \in 1..MaxFileLayers, loss \in {"m", "C"}, normalize \in 0..1 :
        \E type \in [0..nl - 1 -> {"d", "l"}],
           ng \in [0..nl - 1 -> 0..MaxFileGrads] :
        \E fault \in Faults(nl, ng, loss, normalize) :
            rdFile = [nl |-> nl, type |-> type, ng |-> ng, loss |-> loss,
                      normalize |-> normalize, fault |-> fault]
    /\ rdOut = NULL
    /\ rdPc = "idle"
    /\ BatchUnused /\ LstmUnused /\ ModelUnused
    /\ SetbUnused
    /\ UpdUnused
    /\ GradUnused
    /\ HashUnused
    /\ OptUnused /\ SchedUnused /\ EmbUnused /\ CtcUnused /\ TwinUnused
    /\ ResizeUnused

\* m = read_model(fp)
CallReadModel ==
    /\ rdPc = "idle"
    /\ rdOut' \in ReadModel(rdFile)
    /\ rdPc' = "done"
    /\ UNCHANGED rdFile
    /\ UNCHANGED ReadOthers

ReadNext == CallReadModel

SpecRead == ReadInit /\ [][ReadNext]_vars

\* C19: read_model on a malformed file emits a diagnostic, returns NULL,
\* dereferences no NULL pointer, and releases every block it allocated
\* exactly once.
C19_MalformedInputRejected ==
    (rdPc = "done" /\ rdFile.fault.at # "none") =>
        /\ ~rdOut.crashed
        /\ rdOut.ret = "NULL"
        /\ rdOut.diag
        /\ rdOut.live = {}
        /\ ~rdOut.dbl

\* ------------------------------------------------ changing the batch size
ResizeOthers ==
    <<batchVars, lstmVars, modelVars, optVars, schedVars, embVars, ctcVars,
      twinVars, readVars,
      hashVars,
      gradVars,
      updVars,
      setbVars>>

\* lstm_create and dense_create.
ResizeInit ==
    /\ \E act \in Activations, st \in 0..1 :
          /\ rzL = LstmCreate(Units, act, st)
          /\ rzD = DenseCreate(Units, act)
    /\ rzPrev = NULL
    /\ rzOp = "create"
    /\ rzCnt = 0
    /\ BatchUnused /\ LstmUnused /\ ModelUnused
    /\ SetbUnused
    /\ UpdUnused
    /\ GradUnused
    /\ HashUnused
    /\ OptUnused /\ SchedUnused /\ EmbUnused /\ CtcUnused /\ TwinUnused
    /\ ReadUnused

\* lstm_init and dense_init of the two layers.
RzInit ==
    /\ rzCnt < MaxResizeOps
    /\ rzL.Wf = NULL
    /\ \E B \in 1..MaxB, wgt \in Weights :
          /\ rzL' = LstmInit(rzL, Dim, B, wgt)
          /\ rzD' = DenseInit(rzD, Dim, B, wgt.W)
    /\ rzPrev' = [l |-> rzL, d |-> rzD]
    /\ rzOp' = "init"
    /\ rzCnt' = rzCnt + 1
    /\ UNCHANGED ResizeOthers

\* A forward pass through both layers.
RzForward ==
    /\ rzCnt < MaxResizeOps
    /\ rzL.Wf # NULL /\ rzL.B > 0 /\ rzD.B = rzL.B
    /\ \E v \in [0..rzL.B - 1 -> Features] :
          LET x == [t \in 0..rzL.B - 1 |-> [d \in 0..Dim - 1 |-> v[t]]]
          IN  /\ rzL' = LstmForward(rzL, x)
              /\ rzD' = DenseForward(rzD, x)
    /\ rzPrev' = [l |-> rzL, d |-> rzD]
    /\ rzOp' = "forward"
    /\ rzCnt' = rzCnt + 1
    /\ UNCHANGED ResizeOthers

\* lstm_set_batch_size(l, batch_size)
RzLstmResize ==
    /\ rzCnt < MaxResizeOps
    /\ \E bs \in 0..MaxB : rzL' = LstmSetBatchSize(rzL, bs)
    /\ rzPrev' = [l |-> rzL, d |-> rzD]
    /\ rzOp' = "lstm_set_batch_size"
    /\ rzCnt' = rzCnt + 1
    /\ UNCHANGED rzD
    /\ UNCHANGED ResizeOthers

\* dense_set_batch_size(l, batch_size)
RzDenseResize ==
    /\ rzCnt < MaxResizeOps
    /\ \E bs \in 0..MaxB : rzD' = DenseSetBatchSize(rzD, bs)
    /\ rzPrev' = [l |-> rzL, d |-> rzD]
    /\ rzOp' = "dense_set_batch_size"
    /\ rzCnt' = rzCnt + 1
    /\ UNCHANGED rzL
    /\ UNCHANGED ResizeOthers

ResizeNext == RzInit \/ RzForward \/ RzLstmResize \/ RzDenseResize

SpecResize == ResizeInit /\ [][ResizeNext]_vars

\* The fields of an LSTM layer and of a DENSE layer that are not per-batch
\* buffers and not B.
LstmKept(l) ==
    <<l.Wf, l.Wi, l.Wc, l.Wo, l.Uf, l.Ui, l.Uc, l.Uo, l.D, l.S,
      l.activation, l.stateful, l.ph, l.pc>>

DenseKept(l) == <<l.Wx, l.D, l.S, l.activation>>

\* C20: lstm_set_batch_size and dense_set_batch_size leave the weights,
\* D, S, the activation and the stateful flag as they were, and change
\* nothing at all in a layer whose weights do not exist yet.
C20_ResizeKeepsWeights ==
    /\ rzOp = "lstm_set_batch_size" =>
          /\ LstmKept(rzL) = LstmKept(rzPrev.l)
          /\ rzPrev.l.Wf = NULL => rzL = rzPrev.l
    /\ rzOp = "dense_set_batch_size" =>
          /\ DenseKept(rzD) = DenseKept(rzPrev.d)
          /\ rzPrev.d.Wx = NULL => rzD = rzPrev.d

\* An initialised LSTM layer that has run a forward pass was resized to
\* another batch size.
C20_Witness ==
    /\ rzOp = "lstm_set_batch_size"
    /\ rzPrev.l.Wf # NULL
    /\ rzL.B # rzPrev.l.B
    /\ rzL.B > 0
    /\ \E t \in 0..rzPrev.l.B - 1 : rzPrev.l.h[t] # ZeroVec(rzPrev.l.S)

\* ------------------------------------------------------ the hash map in use
\* The strings handed to the map, and the initial sizes of its string
\* memory (one that must grow at once, one that holds a few strings).
HashStrings ==
    {<< >>, <<"a">>, <<"b">>, <<"a", "a">>, <<"a", "b">>, <<"b", "a">>,
     <<"b", "b">>}

MemSizes == {1, 8}

HashOthers ==
    <<batchVars, lstmVars, modelVars, optVars, schedVars, embVars, ctcVars,
      twinVars, readVars, resizeVars,
      gradVars,
      updVars,
      setbVars>>

HashInit ==
    /\ \E map_size \in 2..MaxMapSize, mem_size \in MemSizes :
          hm = HashmapCreate(map_size, mem_size)
    /\ hmGiven = [str \in HashStrings |-> {}]
    /\ hmQuiet = TRUE
    /\ hmOps = 0
    /\ BatchUnused /\ LstmUnused /\ ModelUnused
    /\ SetbUnused
    /\ UpdUnused
    /\ GradUnused
    /\ OptUnused /\ SchedUnused /\ EmbUnused /\ CtcUnused
    /\ TwinUnused /\ ReadUnused /\ ResizeUnused

\* inx = hashmap_str2inx(m, str, 1)
HmInsert ==
    /\ hmOps < MaxHashOps
    /\ \E str \in HashStrings :
          LET r == HashmapStr2Inx(hm, str, 1)
          IN  /\ hm' = r.m
              /\ hmGiven' = IF hm.map_used < hm.map_size
                            THEN [hmGiven EXCEPT ![str] = @ \cup {r.ret}]
                            ELSE hmGiven
    /\ hmOps' = hmOps + 1
    /\ UNCHANGED hmQuiet
    /\ UNCHANGED HashOthers

\* inx = hashmap_str2inx(m, str, 0)
HmLookup ==
    /\ hmOps < MaxHashOps
    /\ \E str \in HashStrings :
          LET r == HashmapStr2Inx(hm, str, 0)
          IN  /\ hm' = r.m
              /\ hmQuiet' = (hmQuiet /\ r.m = hm)
    /\ hmOps' = hmOps + 1
    /\ UNCHANGED hmGiven
    /\ UNCHANGED HashOthers

HashNext == HmInsert \/ HmLookup

SpecHash == HashInit /\ [][HashNext]_vars

\* C21: inserting calls on a map that is not full give equal strings the
\* same index and distinct strings distinct indices, every index is in
\* 0..map_used-1, the string of every index handed out maps back to that
\* index, and a lookup without insertion never changes the map.
C21_IndexBijection ==
    /\ \A str \in HashStrings :
          /\ Cardinality(hmGiven[str]) <= 1
          /\ \A i \in hmGiven[str] :
                /\ 0 <= i /\ i < hm.map_used
                /\ HashmapStr2Inx(hm, HashmapInx2Str(hm, i), 1).ret = i
                /\ HashmapInx2Str(hm, i) = str
    /\ \A s1, s2 \in HashStrings :
          s1 # s2 => hmGiven[s1] \cap hmGiven[s2] = {}
    /\ hmQuiet

\* Two strings that hash to the same slot both got an index, and the
\* string memory has grown.
C21_Witness ==
    \E s1, s2 \in HashStrings :
        /\ s1 # s2
        /\ Hash(s1) % hm.map_size = Hash(s2) % hm.map_size
        /\ hmGiven[s1] # {} /\ hmGiven[s2] # {}
        /\ hm.mem_size > 8

\* ------------------------------------------- the CTC forward and backward
\* The element [t][s] of a table typed float[T][S].
Cell(tab, t, s) == tab[t * ctc.S + s]

\* The true label sequence a frame-level path stands for: a frame counts
\* when it is not blank and differs from the frame before it.
Collapse(path, blank) ==
    LET Kept(t) == path[t] # blank /\ (t = 0 \/ path[t] # path[t - 1])
        F[t \in -1..Cardinality(DOMAIN path) - 1] ==
            IF t = -1 THEN << >>
            ELSE IF Kept(t) THEN Append(F[t - 1], path[t]) ELSE F[t - 1]
    IN  F[Cardinality(DOMAIN path) - 1]

\* The probability of a path: the product of its frames' probabilities.
RECURSIVE PathProb(_, _, _)
PathProb(path, yp, T) ==
    IF T = 0 THEN 1 ELSE PathProb(path, yp, T - 1) * yp[T - 1][path[T - 1]]

\* The path number n of the L^T paths of length T.
RECURSIVE Power(_, _)
Power(b, e) == IF e = 0 THEN 1 ELSE b * Power(b, e - 1)

PathOf(n, T, L) == [t \in 0..T - 1 |-> (n \div Power(L, t)) % L]

\* The total probability of the first n paths that collapse to labels.
RECURSIVE TotalProb(_, _, _, _, _, _)
TotalProb(labels, yp, T, L, blank, n) ==
    IF n = 0 THEN 0
    ELSE LET p == PathOf(n - 1, T, L)
         IN  TotalProb(labels, yp, T, L, blank, n - 1)
             + (IF Collapse(p, blank) = labels THEN PathProb(p, yp, T) ELSE 0)

\* The total probability of the true label sequence of the last ctc_loss.
BruteForce ==
    TotalProb(Decoded(ctc.ytc, ctc.ytclen), lossArgs.yp, lossArgs.T, CtcL,
              ctc.blank, Power(CtcL, lossArgs.T))

\* max(0, S - 2(T - t)) <= s < min(S, 2(t + 1))
InWindow(t, s) ==
    /\ 0 <= s /\ ctc.S - 2 * (lossArgs.T - t) <= s
    /\ s < ctc.S /\ s < 2 * (t + 1)

\* The recurrence of the claim for alpha[t][s], t >= 1.
AlphaStep(t, s) ==
    LET skip == s >= 2 /\ ctc.label[s] # ctc.blank
                       /\ ctc.label[s] # ctc.label[s - 2]
    IN  (Cell(ctc.alpha, t - 1, s)
         + (IF s >= 1 THEN Cell(ctc.alpha, t - 1, s - 1) ELSE 0)
         + (IF skip THEN Cell(ctc.alpha, t - 1, s - 2) ELSE 0))
        * lossArgs.yp[t][ctc.label[s]]

\* The two final states of the forward table.
AlphaFinal ==
    Cell(ctc.alpha, lossArgs.T - 1, ctc.S - 1)
    + (IF ctc.S > 1 THEN Cell(ctc.alpha, lossArgs.T - 1, ctc.S - 2) ELSE 0)

\* ctc_loss has returned from a call with T >= 1.
Lost == ctcPc = "lost" /\ lossArgs.T >= 1

AlphaRecurrence ==
    \A t \in 1..lossArgs.T - 1 : \A s \in 0..ctc.S - 1 :
        InWindow(t, s) => Cell(ctc.alpha, t, s) = AlphaStep(t, s)

\* C23: alpha follows the recurrence inside the window; outside the window
\* it is -infinity in the rows t >= 1, and row 0 holds the probability of
\* the blank at s = 0, of the first label at s = 1 and -infinity from
\* s = 2 on; the two final states add up to the total probability of the
\* paths that collapse to the true label sequence (the one final state
\* when that sequence is empty).
C23_ForwardTable ==
    Lost =>
        /\ AlphaRecurrence
        /\ \A t \in 1..lossArgs.T - 1 : \A s \in 0..ctc.S - 1 :
               ~InWindow(t, s) => Cell(ctc.alpha, t, s) = NegInf
        /\ Cell(ctc.alpha, 0, 0) = lossArgs.yp[0][ctc.blank]
        /\ \A s \in 1..ctc.S - 1 :
               Cell(ctc.alpha, 0, s) =
                   IF s = 1 THEN lossArgs.yp[0][ctc.label[1]] ELSE NegInf
        /\ AlphaFinal = BruteForce

\* C23 as stated: alpha is -infinity at every position outside the
\* window, row 0 included.
C23_OutsideWindowAlways ==
    Lost =>
        /\ AlphaRecurrence
        /\ \A t \in 0..lossArgs.T - 1 : \A s \in 0..ctc.S - 1 :
               ~InWindow(t, s) => Cell(ctc.alpha, t, s) = NegInf
        /\ AlphaFinal = BruteForce

\* ctc_loss has filled the tables for MaxT frames, none of them one-hot,
\* and two different true labels: the step from s - 2 is taken and several
\* paths collapse to the labels.
C23_Witness ==
    /\ Lost /\ lossArgs.T = MaxT
    /\ ctc.ytclen = 2 /\ ctc.label[1] # ctc.label[3]
    /\ \A t \in 0..MaxT - 1 : lossArgs.yp[t] \notin OneHotRows
    /\ BruteForce > 1

\* The class of the largest value of each of the first T rows (the first
\* such class when several share the value).
BestPath(rows, T) ==
    [t \in 0..T - 1 |->
        CHOOSE k \in 0..CtcL - 1 :
            /\ \A j \in 0..CtcL - 1 : rows[t][j] <= rows[t][k]
            /\ \A j \in 0..k - 1 : rows[t][j] < rows[t][k]]

\* C24: the stored predicted and true label sequences are the arg-max
\* classes per timestep with every run of equal labels merged into one
\* and the blanks then removed (so a label repeated across a blank is kept
\* twice); they hold no blank and are at most T long.
C24_DecodedLabels ==
    Lost =>
        LET p == Decoded(ctc.ypc, ctc.ypclen)
            q == Decoded(ctc.ytc, ctc.ytclen)
        IN  /\ p = Collapse(BestPath(lossArgs.yp, lossArgs.T), ctc.blank)
            /\ q = Collapse(BestPath(lossArgs.yt, lossArgs.T), ctc.blank)
            /\ \A i \in 1..Len(p) : p[i] # ctc.blank
            /\ \A i \in 1..Len(q) : q[i] # ctc.blank
            /\ ctc.ypclen <= lossArgs.T /\ ctc.ytclen <= lossArgs.T

\* The true labels were a ^ a (kept twice) and the predictions a a b
\* (merged to a b).
C24_Witness ==
    /\ Lost /\ lossArgs.T = 3
    /\ LET bt == BestPath(lossArgs.yt, 3)
           bp == BestPath(lossArgs.yp, 3)
       IN  /\ bt[0] # ctc.blank /\ bt[1] = ctc.blank /\ bt[2] = bt[0]
           /\ bp[0] = bp[1] /\ bp[0] # ctc.blank
           /\ bp[2] \notin {bp[0], ctc.blank}
    /\ ctc.ytclen = 2 /\ ctc.ytc[0] = ctc.ytc[1]
    /\ ctc.ypclen = 2

\* C25: after ctc_loss with T >= 1 the padded label sequence is S =
\* 2 * ytclen + 1 long, with the blank at the even indices and the decoded
\* true labels in order at the odd ones; S is at most 2T + 1, and label,
\* alpha and beta were accessed inside the buffers of ctc_create only.
C25_PaddedLabels ==
    Lost =>
        /\ ctc.S = 2 * ctc.ytclen + 1
        /\ \A s \in 0..ctc.S - 1 :
               ctc.label[s] = IF s % 2 = 0 THEN ctc.blank
                              ELSE ctc.ytc[(s - 1) \div 2]
        /\ ctc.S <= 2 * lossArgs.T + 1
        /\ ctc.S <= Cardinality(DOMAIN ctc.label)
        /\ lossArgs.T * ctc.S <= Cardinality(DOMAIN ctc.alpha)
        /\ lossArgs.T * ctc.S <= Cardinality(DOMAIN ctc.beta)
        /\ ~ctc.overrun

\* The longest padded sequence: MaxT frames, each a label of its own.
C25_Witness ==
    /\ Lost /\ lossArgs.T = MaxT
    /\ ctc.ytclen = MaxT /\ ctc.S = 2 * MaxT + 1
    /\ ctc.label[1] # ctc.label[3]

UpdOthers ==
    <<batchVars, lstmVars, modelVars, optVars, schedVars, embVars, ctcVars,
      twinVars, readVars, resizeVars, hashVars, gradVars,
      setbVars>>

\* The model after model_create (update_cnt 0), model_add and
\* model_compile with either optimizer.
UpdInit ==
    /\ \E n \in 1..MaxLayers :
          \E layer \in [1..n -> {"d", "l"}], optimizer \in {"l", "a"} :
              updM = [layer |-> layer, optimizer |-> optimizer,
                      update_cnt |-> 0]
    /\ updPc = "ready"
    /\ updFit = [num_epochs |-> 0, epoch |-> 0, batches |-> 0, calls |-> 0]
    /\ updTrained = 0
    /\ updSteps = << >>
    /\ BatchUnused /\ LstmUnused /\ ModelUnused
    /\ SetbUnused
    /\ OptUnused /\ SchedUnused /\ EmbUnused /\ CtcUnused
    /\ TwinUnused /\ ReadUnused /\ ResizeUnused /\ HashUnused
    /\ GradUnused

\* model_fit is entered with num_epochs epochs.
UpdFitBegin ==
    /\ updPc = "ready"
    /\ updFit.calls < MaxFits
    /\ \E num_epochs \in 1..MaxEpochs :
          updFit' = [num_epochs |-> num_epochs, epoch |-> 0, batches |-> 0,
                     calls |-> updFit.calls + 1]
    /\ updPc' = "train"
    /\ UNCHANGED <<updM, updTrained, updSteps>>
    /\ UNCHANGED UpdOthers

\* A pass of the training loop in which batch_copy finds a batch: lines
\* 434-474, with model_update at line 472.
UpdTrainBatch ==
    /\ updPc = "train"
    /\ updFit.batches < MaxUpdBatches
    /\ LET r == ModelUpdate(updM)
       IN  /\ updM' = r.m
           /\ updSteps' = r.steps
    /\ updFit' = [updFit EXCEPT !.batches = @ + 1]
    /\ updTrained' = updTrained + 1
    /\ UNCHANGED updPc
    /\ UNCHANGED UpdOthers

\* batch_copy returns 0: the training loop ends and the validation loop
\* (lines 476-520) starts.
UpdTrainEnd ==
    /\ updPc = "train"
    /\ updPc' = "valid"
    /\ updFit' = [updFit EXCEPT !.batches = 0]
    /\ UNCHANGED <<updM, updTrained, updSteps>>
    /\ UNCHANGED UpdOthers

\* A pass of the validation loop that finds a batch: forward and loss only.
UpdValidBatch ==
    /\ updPc = "valid"
    /\ updFit.batches < MaxUpdBatches
    /\ updFit' = [updFit EXCEPT !.batches = @ + 1]
    /\ UNCHANGED <<updM, updPc, updTrained, updSteps>>
    /\ UNCHANGED UpdOthers

\* The end of an epoch: the next epoch, or the return of model_fit.
UpdEpochEnd ==
    /\ updPc = "valid"
    /\ updFit' = [updFit EXCEPT !.epoch = @ + 1, !.batches = 0]
    /\ updPc' = IF updFit.epoch + 1 < updFit.num_epochs THEN "train"
                ELSE "ready"
    /\ UNCHANGED <<updM, updTrained, updSteps>>
    /\ UNCHANGED UpdOthers

UpdNext ==
    \/ UpdFitBegin \/ UpdTrainBatch \/ UpdTrainEnd \/ UpdValidBatch
    \/ UpdEpochEnd

SpecUpd == UpdInit /\ [][UpdNext]_vars

\* C28: update_cnt is the number of training batches processed since
\* model_create, over all epochs and model_fit calls; every adamw_update
\* call of a batch is handed the same step, the counter after the
\* increment, which is at least 1.
C28_UpdateCounter ==
    /\ updM.update_cnt = updTrained
    /\ \A k \in 1..Len(updSteps) :
           /\ updSteps[k][3] >= 1
           /\ updSteps[k][3] = updM.update_cnt
           /\ updSteps[k][3] = updSteps[1][3]

\* The second model_fit has trained a batch of a model with a dense and
\* an LSTM layer: nine adamw_update calls with a step counted across fits.
C28_Witness ==
    /\ updPc = "train" /\ updFit.calls = 2 /\ updFit.batches > 0
    /\ Len(updSteps) = 9
    /\ updSteps[1][3] > MaxUpdBatches
    /\ updM.update_cnt = updTrained

\* ------------------------------------------- the batch size of the model
SetbOthers ==
    <<batchVars, lstmVars, modelVars, optVars, schedVars, embVars, ctcVars,
      twinVars, readVars, resizeVars, hashVars, gradVars, updVars>>

\* model_create with a batch size, and model_add of every layer.
RECURSIVE AddLayers(_, _, _)
AddLayers(m, types, i) ==
    IF i > Len(types) THEN m
    ELSE AddLayers(ModelAdd(m, IF types[i] = "dense"
                               THEN DenseCreate(Units, "n")
                               ELSE LstmCreate(Units, "n", 0),
                            types[i]).m,
                   types, i + 1)

SetbInit ==
    /\ \E n \in 1..MaxLayers, B \in 1..MaxB :
          \E types \in [1..n -> {"dense", "lstm"}] :
              sbM = AddLayers(ModelCreate(n, B, Dim, 0, 0), types, 1)
    /\ sbPc = "added"
    /\ sbOps = 0
    /\ BatchUnused /\ LstmUnused /\ ModelUnused
    /\ OptUnused /\ SchedUnused /\ EmbUnused /\ CtcUnused
    /\ TwinUnused /\ ReadUnused /\ ResizeUnused /\ HashUnused
    /\ GradUnused /\ UpdUnused

\* model_compile(m, loss_func, "adamw")
SbCompile ==
    /\ sbPc = "added"
    /\ \E loss_func \in {"ctc", "mean-square-error"} :
          sbM' = ModelCompile(sbM, loss_func, "adamw", [W |-> 1, U |-> 1]).m
    /\ sbPc' = "compiled"
    /\ UNCHANGED sbOps
    /\ UNCHANGED SetbOthers

\* model_set_batch_size(m, batch_size), before or after model_compile
SbSetBatchSize ==
    /\ sbOps < MaxSetOps
    /\ \E batch_size \in 0..MaxB + 1 :
          sbM' = ModelSetBatchSize(sbM, batch_size)
    /\ sbOps' = sbOps + 1
    /\ UNCHANGED sbPc
    /\ UNCHANGED SetbOthers

SetbNext == SbCompile \/ SbSetBatchSize

SpecSetb == SetbInit /\ [][SetbNext]_vars

\* C29: once the model is compiled, and after any model_set_batch_size
\* calls, every layer's B is the model's batch_size and the T of the CTC
\* calculator, when the loss is CTC, is batch_size too.
C29_BatchSizeEverywhere ==
    sbPc = "compiled" =>
        /\ \A i \in 0..sbM.num_layers - 1 :
               sbM.layer[i].net.B = sbM.batch_size
        /\ sbM.loss_func = "C" => sbM.ctc.T = sbM.batch_size

\* --------------------------------------- the gradients of a training batch
\* One dense layer without activation, mean square error, batch size MaxB.
DyScale == Factorial(MaxB)

GradOthers ==
    <<batchVars, lstmVars, modelVars, optVars, schedVars, embVars, ctcVars,
      twinVars, readVars, resizeVars, hashVars,
      updVars,
      setbVars>>

\* model_compile and the head of model_fit: dy[i] = allocmem(B, S).
GradInit ==
    /\ \E w \in 1..2 : gL = DenseInit(DenseCreate(Units, "n"), Dim, MaxB, w)
    /\ gX = NULL /\ gCnt = 0
    /\ gDy = ZeroRows(0, MaxB - 1, Units)
    /\ gWx = NULL
    /\ gOps = 0
    /\ BatchUnused /\ LstmUnused /\ ModelUnused
    /\ SetbUnused
    /\ UpdUnused
    /\ OptUnused /\ SchedUnused /\ EmbUnused /\ CtcUnused
    /\ TwinUnused /\ ReadUnused /\ ResizeUnused /\ HashUnused

\* One pass of model_fit's training loop: batch_copy returned cnt rows
\* (the rest is padding: x rows of ones, label rows of zeros), then
\* model_batch_forward, dLdy_mean_square_error(yp, yt, dy, cnt, N) and
\* model_batch_backward.
GradBatch ==
    /\ gOps < MaxGradOps
    /\ \E cnt \in 1..MaxB :
        \E xv \in [0..cnt - 1 -> 1..2], yv \in [0..cnt - 1 -> 0..1] :
          LET x  == [k \in 0..MaxB - 1 |->
                       IF k < cnt THEN [d \in 0..Dim - 1 |-> xv[k]]
                       ELSE XPad(Dim)]
              yt == [k \in 0..MaxB - 1 |->
                       IF k < cnt THEN [j \in 0..Units - 1 |-> yv[k]]
                       ELSE YPad(Units)]
              l1 == DenseForward(gL, x)
              dy == DLdyMeanSquareError(l1.h, yt, gDy, cnt, DyScale)
          IN  /\ gL' = l1
              /\ gX' = x
              /\ gCnt' = cnt
              /\ gDy' = dy
              /\ gWx' = DenseBackward(l1, dy, x)
    /\ gOps' = gOps + 1
    /\ UNCHANGED GradOthers

GradNext == GradBatch

SpecGrad == GradInit /\ [][GradNext]_vars

\* C22: the weight gradient of a training batch is the sum over its cnt
\* real rows only; the padding rows of a short batch add nothing to it,
\* whatever batches came before.
C22_PaddingAddsNoGradient ==
    gOps > 0 =>
        \A i \in 0..gL.D - 1 : \A j \in 0..gL.S - 1 :
            gWx[i][j] = TSum(gX, gDy, i, j, gCnt)

====
